---- MODULE Spec2Model ----
(***************************************************************************)
(* Cycle-graph assembly of the aircraft-data-hierarchy propulsion builder. *)
(*                                                                         *)
(* The model follows one cycle declaration through                         *)
(*   - PropulsionCycle's field validators (propulsion_cycle.py),           *)
(*   - the construction of an HBTFBuilder with its options, and            *)
(*   - HBTFBuilder.setup (hbtf_builder.py), which adds the subsystems,     *)
(*     wires shafts, nozzles, balances, flow and bleeds.                   *)
(*                                                                         *)
(* What setup asks of OpenMDAO/pyCycle (add_subsystem, connect, promotes,  *)
(* add_balance, set_order, pyc_connect_flow) is recorded in `point`; the   *)
(* checks the libraries make later, when the problem is assembled, are     *)
(* outside the model.  The library behaviour modelled is what raises       *)
(* inside setup itself: the option throttle_mode takes the values listed   *)
(* at hbtf_builder.py:190, an option declared without a default raises     *)
(* RuntimeError when it is read before it was given, and set_order raises  *)
(* ValueError unless its list names every subsystem added exactly once.    *)
(*                                                                         *)
(* The declaration is made of the classes of propulsion_cycle.py, the ones *)
(* the builder imports.  Of their construction the model follows the field *)
(* validators the classes define and the type of the two connection        *)
(* fields, Optional[dict] (propulsion_cycle.py lines 362-363): a           *)
(* declaration that gives global_connections or flow_connections as a      *)
(* list, as the demonstration does (propulsion_performance_builder.py      *)
(* lines 480-499), is rejected for that field, one that gives a dictionary *)
(* is not.  The builder walks either container entry by entry, the keys of *)
(* a dictionary in the order they were inserted.                           *)
(***************************************************************************)
EXTENDS Integers, Sequences, FiniteSets, TLC

VARIABLES
    cycleData,    \* the cycle-data dictionary of the declaration
    cycleStatus,  \* verdict of PropulsionCycle's validators on the declaration
    ctor,         \* keyword arguments given to HBTFBuilder(...)
    options,      \* the builder's options dictionary
    pc,           \* "declared", "constructed", "built" or "failed"
    err,          \* the exception that ended construction or setup, or "none"
    point,        \* what setup has added and connected
    nsetup,       \* number of times setup has run on the builder
    mp,           \* the multi-point model: its points and their connections
    run,          \* runpyCycle: its position, the sweep entry, the solves, the report
    bcomp,        \* a balance component and the balance declarations handed to add_balances
    builder       \* a PropulsionPerformanceBuilder or pyCycleBuilder and its calls

vars == <<cycleData, cycleStatus, ctor, options, pc, err, point, nsetup, mp, run,
          bcomp, builder>>

-----------------------------------------------------------------------------
(* Bounds of the model *)

\* most compressor + Bleed + turbine elements in a generated bleed declaration
MaxOwners == 3
\* most entries of a generated global_connections list
MaxPairs == 2
\* most turbomachinery elements with a generated map token
MaxMapped == 2
\* most runs of setup on one builder
MaxSetups == 2
\* most entries of a generated flow_connections list
MaxFlows == 2
\* most FlightConditions elements and most nozzles of a generated declaration
MaxFCs == 2
MaxNozz == 2
\* most solves of one run that do not converge
MaxFailures == 1
\* most balance declarations handed to add_balances
MaxBalances == 3
\* most elements of the cycle of an ADH instance given to a builder
MaxElements == 2
\* most getInput and getOutput calls on one builder
MaxCalls == 4

-----------------------------------------------------------------------------
(* Sequence helpers *)

Range(s) == {s[i] : i \in 1..Len(s)}

RECURSIVE SeqsUpTo(_, _)
\* all sequences over S of length 0..n
SeqsUpTo(S, n) ==
    IF n = 0 THEN {<<>>}
    ELSE LET shorter == SeqsUpTo(S, n - 1)
         IN  shorter \cup {Append(s, x) : s \in {t \in shorter : Len(t) = n - 1}, x \in S}

\* all orders in which a loop can meet the elements of S
Perms(S) == {s \in [1..Cardinality(S) -> S] : Range(s) = S}

RECURSIVE Concat(_)
\* the concatenation of a sequence of sequences
Concat(ss) == IF ss = <<>> THEN <<>> ELSE Head(ss) \o Concat(Tail(ss))

-----------------------------------------------------------------------------
(* The data model: elements as the get* accessors hand them to the builder *)

None == "None"

\* a Compressor or Turbine entry of cycleData["comp"] / cycleData["turb"];
\* bleed_given = FALSE is bleed_names = None, the field's default
Turbo(name, map_data, bleed_given, bleed_names) ==
    [name |-> name, map_data |-> map_data,
     bleed_given |-> bleed_given, bleed_names |-> bleed_names]

\* a Bleed entry of cycleData["bleeds"]
BleedEl(name, bleed_given, bleed_names) ==
    [name |-> name, bleed_given |-> bleed_given, bleed_names |-> bleed_names]

\* a Shaft entry of cycleData["shafts"]
ShaftEl(name, num_ports, nmech_type) ==
    [name |-> name, num_ports |-> num_ports, nmech_type |-> nmech_type]

\* a Nozzle entry of cycleData["nozz"]
NozzEl(name, nozz_type, loss_coef) ==
    [name |-> name, nozz_type |-> nozz_type, loss_coef |-> loss_coef]

\* a Combustor entry of cycleData["comb"]; fuel_type = None is a Combustor
\* declared with no fuel type, the field's default
CombEl(name, fuel_type) == [name |-> name, fuel_type |-> fuel_type]

\* a Performance entry of cycleData["perf"]
PerfEl(name) ==
    [name |-> name, pt2_source |-> "inlet", ram_drag_source |-> "inlet",
     pt3_source |-> "hpc", wfuel_0_source |-> "burner",
     fg_0_source |-> "core_nozz", fg_1_source |-> "byp_nozz"]

\* the declaration of the repository's demonstration engine,
\* propulsion_performance_builder.py lines 421-521
DemoCycleInfo ==
    [design |-> TRUE, thermo_method |-> "TABULAR", throttle_mode |-> "T4",
     global_connections |->
        << <<"fan", "lp_shaft">>, <<"lpc", "lp_shaft">>, <<"lpt", "lp_shaft">>,
           <<"hpc", "hp_shaft">>, <<"hpt", "hp_shaft">> >>,
     flow_connections |->
        << <<"fc", "inlet">>, <<"inlet", "fan">>, <<"fan", "splitter">>,
           <<"splitter", "duct4", "1">>, <<"duct4", "lpc">>, <<"lpc", "duct6">>,
           <<"duct6", "hpc">>, <<"hpc", "bld3">>, <<"bld3", "burner">>,
           <<"burner", "hpt">>, <<"hpt", "duct11">>, <<"duct11", "lpt">>,
           <<"lpt", "duct13">>, <<"duct13", "core_nozz">>,
           <<"splitter", "byp_bld", "2">>, <<"byp_bld", "duct15">>,
           <<"duct15", "byp_nozz">> >>]

\* the dictionary getInput makes of the demonstration declaration: it has
\* no entry "perf"; fuel_type is the field of the PropulsionCycle, left at
\* its default
DemoData ==
    [cycleInfo |-> DemoCycleInfo,
     fc        |-> << [name |-> "fc"] >>,
     inlets    |-> << [name |-> "inlet"] >>,
     splitters |-> << [name |-> "splitter"] >>,
     duct      |-> << [name |-> "duct4"], [name |-> "duct6"], [name |-> "duct11"],
                      [name |-> "duct13"], [name |-> "duct15"] >>,
     comp      |-> << Turbo("fan", "FanMap", TRUE, {}),
                      Turbo("lpc", "LPCMap", TRUE, {}),
                      Turbo("hpc", "HPCMap", TRUE, {"cool1", "cool2", "cust"}) >>,
     comb      |-> << CombEl("burner", "FAR") >>,
     turb      |-> << Turbo("hpt", "HPTMap", TRUE, {"cool3", "cool4"}),
                      Turbo("lpt", None, TRUE, {"cool1", "cool2"}) >>,
     nozz      |-> << NozzEl("core_nozz", "CV", "Cv"), NozzEl("byp_nozz", "CV", "Cv") >>,
     shafts    |-> << ShaftEl("lp_shaft", 3, None), ShaftEl("hp_shaft", 2, None) >>,
     bleeds    |-> << BleedEl("bld3", TRUE, {"cool3", "cool4"}),
                      BleedEl("byp_bld", TRUE, {"bypBld"}) >>,
     has_perf  |-> FALSE,
     perf      |-> <<>>,
     fuel_type |-> "FAR",
     given_as  |-> [global_connections |-> "list", flow_connections |-> "list"]]

\* that dictionary with the entry "perf" that add_perfomance reads (lines
\* 114-129), written into it by the caller
DemoWithPerf == [DemoData EXCEPT !.has_perf = TRUE, !.perf = << PerfEl("perf") >>]

-----------------------------------------------------------------------------
(* HBTFBuilder: the add_* helpers.  A subsystem is recorded with its class, *)
(* the map class it was given, the name its Nmech input is promoted to and, *)
(* in opts, the fuel type a Combustor and the nozzle type and loss           *)
(* coefficient a Nozzle is made with.                                       *)

Subsystem(name, cls, map, nmech) ==
    [name |-> name, cls |-> cls, map |-> map, nmech |-> nmech, opts |-> <<>>]

\* add_compressors, lines 26-37: map class and promoted speed of one token
CompressorMap(map_data) ==
    IF map_data = "FanMap" THEN [md |-> "FanMap", prom_nmech |-> "LP_Nmech"]
    ELSE IF map_data = "LPCMap" THEN [md |-> "LPCMap", prom_nmech |-> "LP_Nmech"]
    ELSE IF map_data = "HPCMap" THEN [md |-> "HPCMap", prom_nmech |-> "HP_Nmech"]
    ELSE [md |-> "HPCMap", prom_nmech |-> "HP_Nmech"]

\* add_turbines, lines 46-54
TurbineMap(map_data) ==
    IF map_data = "LPTMap" THEN [md |-> "LPTMap", prom_nmech |-> "LP_Nmech"]
    ELSE IF map_data = "HPTMap" THEN [md |-> "HPTMap", prom_nmech |-> "HP_Nmech"]
    ELSE [md |-> "HPTMap", prom_nmech |-> "HP_Nmech"]

add_compressors(compressors) ==
    [i \in 1..Len(compressors) |->
        LET g == CompressorMap(compressors[i].map_data)
        IN  Subsystem(compressors[i].name, "Compressor", g.md, g.prom_nmech)]

add_turbines(turbines) ==
    [i \in 1..Len(turbines) |->
        LET g == TurbineMap(turbines[i].map_data)
        IN  Subsystem(turbines[i].name, "Turbine", g.md, g.prom_nmech)]

add_shafts(shafts) ==
    [i \in 1..Len(shafts) |->
        Subsystem(shafts[i].name, "Shaft", None, shafts[i].nmech_type \o "_Nmech")]

\* add_combustors, lines 61-63
add_combustors(combustors) ==
    [i \in 1..Len(combustors) |->
        [Subsystem(combustors[i].name, "Combustor", None, None)
            EXCEPT !.opts = << combustors[i].fuel_type >>]]

\* add_nozzles, lines 93-95
add_nozzles(nozzles) ==
    [i \in 1..Len(nozzles) |->
        [Subsystem(nozzles[i].name, "Nozzle", None, None)
            EXCEPT !.opts = << nozzles[i].nozz_type, nozzles[i].loss_coef >>]]

\* add_bleeds, add_flightconditions, add_inlets, add_splitters, add_ducts:
\* one subsystem per entry
add_plain(elements, cls) ==
    [i \in 1..Len(elements) |-> Subsystem(elements[i].name, cls, None, None)]

\* the element subsystems in the order setup adds them, lines 209-218
add_elements(cd) ==
    Concat(<< add_plain(cd.fc, "FlightConditions"),
              add_plain(cd.inlets, "Inlet"),
              add_compressors(cd.comp),
              add_plain(cd.splitters, "Splitter"),
              add_plain(cd.duct, "Duct"),
              add_plain(cd.bleeds, "BleedOut"),
              add_combustors(cd.comb),
              add_turbines(cd.turb),
              add_nozzles(cd.nozz),
              add_shafts(cd.shafts) >>)

\* a connection request self.connect(src, tgt)
Conn(src, tgt) == <<src, tgt>>

\* add_perfomance, lines 113-129: the subsystems and the connections
add_perfomance_subsystems(cd) == add_plain(cd.perf, "Performance")

add_perfomance_connects(cd) ==
    Concat([i \in 1..Len(cd.perf) |->
        LET perf == cd.perf[i]
        IN  << Conn(perf.pt2_source \o ".Fl_O:tot:P", perf.name \o ".Pt2"),
               Conn(perf.ram_drag_source \o ".F_ram", perf.name \o ".ram_drag"),
               Conn(perf.pt3_source \o ".Fl_O:tot:P", perf.name \o ".Pt3"),
               Conn(perf.wfuel_0_source \o ".Wfuel", perf.name \o ".Wfuel_0"),
               Conn(perf.fg_0_source \o ".Fg", perf.name \o ".Fg_0"),
               Conn(perf.fg_1_source \o ".Fg", perf.name \o ".Fg_1") >>])

-----------------------------------------------------------------------------
(* HBTFBuilder: the connect_* helpers *)

\* connect_flow, lines 134-139: one pyc_connect_flow per entry; an entry of
\* more than two items names the outlet by its third item
FlowEdge(fc) ==
    IF Len(fc) > 2
    THEN [src |-> fc[1], outlet |-> "Fl_O" \o fc[3], dst |-> fc[2], inlet |-> "Fl_I"]
    ELSE [src |-> fc[1], outlet |-> "Fl_O", dst |-> fc[2], inlet |-> "Fl_I"]

connect_flow(flow_connections) ==
    [i \in 1..Len(flow_connections) |-> FlowEdge(flow_connections[i])]

\* connect_bleeds, lines 144-148: the set of declared bleed names
bleedNames(cd) ==
    UNION ({cd.comp[i].bleed_names : i \in 1..Len(cd.comp)}
           \cup {cd.turb[i].bleed_names : i \in 1..Len(cd.turb)}
           \cup {cd.bleeds[i].bleed_names : i \in 1..Len(cd.bleeds)})

\* bleedPairs filled in the order turbines, Bleed elements, compressors
bleedPairs_TurbinesFirst(cd) == cd.turb \o cd.bleeds \o cd.comp

\* connect_bleeds, lines 150-157: the keys of bleedPairs in insertion order,
\* compressors, then Bleed elements, then turbines
bleedPairs(cd) == cd.comp \o cd.bleeds \o cd.turb

\* connect_bleeds, line 161: the names of the elements declaring bn, in the
\* order of bleedPairs
cWB(cd, bn) ==
    LET bp   == bleedPairs(cd)
        Has(e) == bn \in e.bleed_names
        own  == SelectSeq(bp, Has)
    IN  [i \in 1..Len(own) |-> own[i].name]

\* connect_bleeds, lines 162-163: an edge between the first two declaring
\* elements when there is more than one
BleedEdge(cd, bn) ==
    LET c == cWB(cd, bn)
    IN  IF Len(c) > 1 THEN {[src |-> c[1], dst |-> c[2], bleed |-> bn]} ELSE {}

\* iterating bleed_names = None raises TypeError, lines 145-147
bleeds_iterable(cd) ==
    /\ \A i \in 1..Len(cd.comp) : cd.comp[i].bleed_given
    /\ \A i \in 1..Len(cd.turb) : cd.turb[i].bleed_given
    /\ \A i \in 1..Len(cd.bleeds) : cd.bleeds[i].bleed_given

\* the bleed names for which the loop of lines 160-163 makes a call
connectedNames(cd) == {bn \in bleedNames(cd) : BleedEdge(cd, bn) # {}}

\* the orders in which `for bn in bleedNames` can meet them: bleedNames is a
\* Python set of strings, whose iteration order is not fixed by the program
IterationOrders(cd) == Perms(connectedNames(cd))

\* connect_bleeds that returns after its first pyc_connect_flow
connect_bleeds_FirstOnly(cd, order) ==
    IF order = <<>> THEN <<>>
    ELSE << CHOOSE e \in BleedEdge(cd, order[1]) : TRUE >>

\* connect_bleeds, lines 160-163: the pyc_connect_flow calls in the order the
\* loop meets the bleed names
connect_bleeds(cd, order) ==
    [i \in 1..Len(order) |-> CHOOSE e \in BleedEdge(cd, order[i]) : TRUE]

\* connect_compturb_to_shafts, line 173: "comp,shaft" in gc
InGC(gc, comp, shaft) == \E k \in 1..Len(gc) : gc[k] = <<comp, shaft>>

\* connect_compturb_to_shafts, lines 167-177: per shaft, the elements of
\* compturb found in gc take ports 0, 1, 2, ... in the order of compturb
connect_compturb_to_shafts(compturb, shafts, gc) ==
    {[src |-> compturb[j].name, shaft |-> shafts[s].name,
      port |-> Cardinality({k \in 1..(j - 1) :
                               InGC(gc, compturb[k].name, shafts[s].name)})] :
        <<s, j>> \in {p \in (1..Len(shafts)) \X (1..Len(compturb)) :
                        InGC(gc, compturb[p[2]].name, shafts[p[1]].name)}}

\* the call at lines 224-226 passes the compressors only
setup_shaft_connections(cd) ==
    connect_compturb_to_shafts(cd.comp, cd.shafts, cd.cycleInfo.global_connections)

\* connect_nozz_to_fc, lines 180-183: every nozzle, once per FlightConditions
connect_nozz_to_fc(nozzles, flightconditions) ==
    Concat([f \in 1..Len(flightconditions) |->
        [n \in 1..Len(nozzles) |->
            Conn(flightconditions[f].name \o ".Fl_O:stat:P",
                 nozzles[n].name \o ".Ps_exhaust")]])

-----------------------------------------------------------------------------
(* HBTFBuilder.setup: the balances, lines 245-321 *)

\* balance.add_balance(name, eq_units=..., use_mult=..., mult_val=...);
\* BalanceComp's defaults are use_mult=False, mult_val=1
Bal(name, eq_units, use_mult, mult_val) ==
    [name |-> name, eq_units |-> eq_units, use_mult |-> use_mult, mult_val |-> mult_val]

\* self.promotes("balance", inputs=[(input, alias)])
Prom(input, alias) == <<input, alias>>

Wiring(balances, connects, promotes) ==
    [balances |-> balances, connects |-> connects, promotes |-> promotes]

\* the design balances with lpt_PR driving a turbine that is not declared
design_balances_UndeclaredTurbine ==
    Wiring(<< Bal("W", "lbf", FALSE, 1), Bal("FAR", "degR", FALSE, 1),
              Bal("lpt_PR", "hp", TRUE, -1), Bal("hpt_PR", "hp", TRUE, -1) >>,
           << Conn("balance.W", "fc.W"), Conn("perf.Fn", "balance.lhs:W"),
              Conn("balance.FAR", "burner.Fl_I:FAR"),
              Conn("burner.Fl_O:tot:T", "balance.lhs:FAR"),
              Conn("balance.lpt_PR", "lpt2.PR"),
              Conn("lp_shaft.pwr_in_real", "balance.lhs:lpt_PR"),
              Conn("lp_shaft.pwr_out_real", "balance.rhs:lpt_PR"),
              Conn("balance.hpt_PR", "hpt.PR"),
              Conn("hp_shaft.pwr_in_real", "balance.lhs:hpt_PR"),
              Conn("hp_shaft.pwr_out_real", "balance.rhs:hpt_PR") >>,
           << Prom("rhs:W", "Fn_DES"), Prom("rhs:FAR", "T4_MAX") >>)

\* lines 250-270
design_balances ==
    Wiring(<< Bal("W", "lbf", FALSE, 1), Bal("FAR", "degR", FALSE, 1),
              Bal("lpt_PR", "hp", TRUE, -1), Bal("hpt_PR", "hp", TRUE, -1) >>,
           << Conn("balance.W", "fc.W"), Conn("perf.Fn", "balance.lhs:W"),
              Conn("balance.FAR", "burner.Fl_I:FAR"),
              Conn("burner.Fl_O:tot:T", "balance.lhs:FAR"),
              Conn("balance.lpt_PR", "lpt.PR"),
              Conn("lp_shaft.pwr_in_real", "balance.lhs:lpt_PR"),
              Conn("lp_shaft.pwr_out_real", "balance.rhs:lpt_PR"),
              Conn("balance.hpt_PR", "hpt.PR"),
              Conn("hp_shaft.pwr_in_real", "balance.lhs:hpt_PR"),
              Conn("hp_shaft.pwr_out_real", "balance.rhs:hpt_PR") >>,
           << Prom("rhs:W", "Fn_DES"), Prom("rhs:FAR", "T4_MAX") >>)

\* the FAR balance of an off-design point without the percent_thrust branch
offdesign_FAR_T4Only(throttle_mode) ==
    IF throttle_mode = "T4"
    THEN Wiring(<< Bal("FAR", "degR", FALSE, 1) >>,
                << Conn("balance.FAR", "burner.Fl_I:FAR"),
                   Conn("burner.Fl_O:tot:T", "balance.lhs:FAR") >>,
                << Prom("rhs:FAR", "T4_MAX") >>)
    ELSE Wiring(<<>>, <<>>, <<>>)

\* lines 288-298: the FAR balance of an off-design point
offdesign_FAR(throttle_mode) ==
    IF throttle_mode = "T4"
    THEN Wiring(<< Bal("FAR", "degR", FALSE, 1) >>,
                << Conn("balance.FAR", "burner.Fl_I:FAR"),
                   Conn("burner.Fl_O:tot:T", "balance.lhs:FAR") >>,
                << Prom("rhs:FAR", "T4_MAX") >>)
    ELSE IF throttle_mode = "percent_thrust"
    THEN Wiring(<< Bal("FAR", "lbf", TRUE, 1) >>,
                << Conn("balance.FAR", "burner.Fl_I:FAR"),
                   Conn("perf.Fn", "balance.rhs:FAR") >>,
                << Prom("mult:FAR", "PC"), Prom("lhs:FAR", "Fn_max") >>)
    ELSE Wiring(<<>>, <<>>, <<>>)

\* the other off-design balances with hp_Nmech reading the low-pressure shaft
offdesign_rest_SameShaft ==
    Wiring(<< Bal("W", "inch**2", FALSE, 1), Bal("BPR", "inch**2", FALSE, 1),
              Bal("lp_Nmech", "hp", TRUE, -1), Bal("hp_Nmech", "hp", TRUE, -1) >>,
           << Conn("balance.W", "fc.W"),
              Conn("core_nozz.Throat:stat:area", "balance.lhs:W"),
              Conn("balance.BPR", "splitter.BPR"),
              Conn("byp_nozz.Throat:stat:area", "balance.lhs:BPR"),
              Conn("balance.lp_Nmech", "LP_Nmech"),
              Conn("lp_shaft.pwr_in_real", "balance.lhs:lp_Nmech"),
              Conn("lp_shaft.pwr_out_real", "balance.rhs:lp_Nmech"),
              Conn("balance.hp_Nmech", "HP_Nmech"),
              Conn("lp_shaft.pwr_in_real", "balance.lhs:hp_Nmech"),
              Conn("lp_shaft.pwr_out_real", "balance.rhs:hp_Nmech") >>,
           <<>>)

\* lines 300-321: the other balances of an off-design point
offdesign_rest ==
    Wiring(<< Bal("W", "inch**2", FALSE, 1), Bal("BPR", "inch**2", FALSE, 1),
              Bal("lp_Nmech", "hp", TRUE, -1), Bal("hp_Nmech", "hp", TRUE, -1) >>,
           << Conn("balance.W", "fc.W"),
              Conn("core_nozz.Throat:stat:area", "balance.lhs:W"),
              Conn("balance.BPR", "splitter.BPR"),
              Conn("byp_nozz.Throat:stat:area", "balance.lhs:BPR"),
              Conn("balance.lp_Nmech", "LP_Nmech"),
              Conn("lp_shaft.pwr_in_real", "balance.lhs:lp_Nmech"),
              Conn("lp_shaft.pwr_out_real", "balance.rhs:lp_Nmech"),
              Conn("balance.hp_Nmech", "HP_Nmech"),
              Conn("hp_shaft.pwr_in_real", "balance.lhs:hp_Nmech"),
              Conn("hp_shaft.pwr_out_real", "balance.rhs:hp_Nmech") >>,
           <<>>)

\* lines 249-321: the branch on design and on the option throttle_mode
setup_balances(design, throttle_mode) ==
    IF design THEN design_balances
    ELSE LET far == offdesign_FAR(throttle_mode)
         IN  Wiring(far.balances \o offdesign_rest.balances,
                    far.connects \o offdesign_rest.connects,
                    far.promotes \o offdesign_rest.promotes)

\* lines 325-350: the execution order handed to set_order
setup_order ==
    << "balance", "fc", "inlet", "fan", "splitter", "duct4", "lpc", "duct6", "hpc",
       "bld3", "burner", "hpt", "duct11", "lpt", "duct13", "core_nozz", "byp_bld",
       "duct15", "byp_nozz", "lp_shaft", "hp_shaft", "perf" >>

\* the names of the subsystems of a point in the order they were added
SubsystemNames(pt) == [i \in 1..Len(pt.subsystems) |-> pt.subsystems[i].name]

\* lines 325-350, self.set_order(...): Group.set_order of OpenMDAO takes the
\* list when it names every subsystem of the group and no other name, none
\* twice, and raises ValueError otherwise
set_order_accepts(pt) ==
    /\ Range(pt.order) = Range(SubsystemNames(pt))
    /\ \A i, j \in 1..Len(pt.order) : pt.order[i] = pt.order[j] => i = j

-----------------------------------------------------------------------------
(* Reading a point's balance wiring *)

\* names of the active balance set, in the order they were added
BalanceNames(pt) == [i \in 1..Len(pt.balances) |-> pt.balances[i].name]

\* what feeds input `input` of the balance component: the source connected
\* to it, or the name it is promoted to; the empty set when it is unbound
Feeds(pt, input) ==
    {pt.connects[i][1] : i \in {k \in 1..Len(pt.connects) :
                                   pt.connects[k][2] = "balance." \o input}}
    \cup {pt.promotes[i][2] : i \in {k \in 1..Len(pt.promotes) :
                                        pt.promotes[k][1] = input}}

LHS(pt, name) == Feeds(pt, "lhs:" \o name)
RHS(pt, name) == Feeds(pt, "rhs:" \o name)
MULT(pt, name) == Feeds(pt, "mult:" \o name)

BalanceOf(pt, name) ==
    {pt.balances[i] : i \in {k \in 1..Len(pt.balances) : pt.balances[k].name = name}}

-----------------------------------------------------------------------------
(* PropulsionCycle's field validators, propulsion_cycle.py lines 366-385 *)

validate_thermo_method(v) == v \in {"CEA", "TABULAR"}

validate_throttle_mode(v) == v \in {"T4", "percent_throttle"}

validate_fuel_type(v) == v \in {"FAR", "Jet-A(g)"}

\* global_connections and flow_connections, lines 362-363: the fields are
\* Optional[dict], which takes a dictionary and refuses a list
is_dict(container) == container = "dict"

\* the fields of the cycle that the ValidationError of PropulsionCycle(...)
\* names for this declaration: those whose validator raises ValueError and
\* those whose value is not of the type of the field
RejectedFields(cd) ==
    {f \in {"thermo_method", "throttle_mode", "fuel_type",
            "global_connections", "flow_connections"} :
        \/ f = "thermo_method" /\ ~validate_thermo_method(cd.cycleInfo.thermo_method)
        \/ f = "throttle_mode" /\ ~validate_throttle_mode(cd.cycleInfo.throttle_mode)
        \/ f = "fuel_type" /\ ~validate_fuel_type(cd.fuel_type)
        \/ f = "global_connections" /\ ~is_dict(cd.given_as.global_connections)
        \/ f = "flow_connections" /\ ~is_dict(cd.given_as.flow_connections)}

\* Combustor(...): the class of propulsion_cycle.py (lines 216-231), which
\* the builder imports, declares fuel_type as an optional string and has no
\* validator, so that its constructor takes any fuel type and none
Combustor_accepts(fuel_type) == TRUE

-----------------------------------------------------------------------------
(* HBTFBuilder.initialize and setup *)

\* initialize, line 190: the values the option throttle_mode takes
throttle_mode_values == {"T4", "percent_thrust"}

\* the branch of lines 249, 288 and 294 that a design flag and a throttle
\* mode select, named as the balance state it instantiates
StateFor(design, throttle_mode) ==
    IF design THEN "Design"
    ELSE IF throttle_mode = "T4" THEN "OffDesign-T4"
    ELSE IF throttle_mode = "percent_thrust" THEN "OffDesign-PercentThrust"
    ELSE "OffDesign-NoThrottle"

EmptyPoint ==
    [subsystems |-> <<>>, torque |-> {}, ambient |-> <<>>, balances |-> <<>>,
     connects |-> <<>>, promotes |-> <<>>, order |-> <<>>, flow |-> <<>>,
     bleed_calls |-> <<>>, bleed |-> {}, state |-> None]

\* setup up to and including add_perfomance, lines 209-221
PointAfterElements(cd) ==
    [EmptyPoint EXCEPT !.subsystems = add_elements(cd)]

\* setup up to the call of set_order, lines 221-350: `order` is the list
\* the call is made with
PointBeforeFlow(cd, o) ==
    LET w == setup_balances(cd.cycleInfo.design, o.throttle_mode)
    IN  [subsystems |-> add_elements(cd) \o add_perfomance_subsystems(cd)
                        \o << Subsystem("balance", "BalanceComp", None, None) >>,
         torque     |-> setup_shaft_connections(cd),
         ambient    |-> connect_nozz_to_fc(cd.nozz, cd.fc),
         balances   |-> w.balances,
         connects   |-> add_perfomance_connects(cd) \o w.connects,
         promotes   |-> w.promotes,
         order      |-> setup_order,
         flow       |-> <<>>,
         bleed_calls |-> <<>>,
         bleed      |-> {},
         state      |-> StateFor(cd.cycleInfo.design, o.throttle_mode)]

\* setup up to and including connect_flow, lines 221-353
PointBeforeBleeds(cd, o) ==
    [PointBeforeFlow(cd, o) EXCEPT !.flow = connect_flow(cd.cycleInfo.flow_connections)]

\* the options after lines 197-205
OptionsAfterSetup(cd, o) ==
    [o EXCEPT !.throttle_mode = cd.cycleInfo.throttle_mode,
              !.thermo_method = IF cd.cycleInfo.thermo_method = "TABULAR"
                                THEN "TABULAR" ELSE "CEA"]

\* setup, lines 193-377: the exception raised (or "none"), the options and
\* the point as setup leaves them; `order` is the order in which the loop of
\* connect_bleeds meets the bleed names.  Line 195 reads the option
\* adhCycleData, declared at line 189 without a default: the read raises
\* RuntimeError when the constructor was not given the cycle data
setup(cd, o, order) ==
    IF ~o.has_data
    THEN [err |-> "RuntimeError:adhCycleData", options |-> o, point |-> EmptyPoint]
    ELSE IF cd.cycleInfo.throttle_mode \notin throttle_mode_values
    THEN [err |-> "ValueError:throttle_mode", options |-> o, point |-> EmptyPoint]
    ELSE LET o2 == OptionsAfterSetup(cd, o)
         IN  IF ~cd.has_perf
             THEN [err |-> "KeyError:perf", options |-> o2,
                   point |-> PointAfterElements(cd)]
             ELSE IF ~set_order_accepts(PointBeforeFlow(cd, o2))
             THEN [err |-> "ValueError:set_order", options |-> o2,
                   point |-> PointBeforeFlow(cd, o2)]
             ELSE IF ~bleeds_iterable(cd)
             THEN [err |-> "TypeError:bleed_names", options |-> o2,
                   point |-> PointBeforeBleeds(cd, o2)]
             ELSE [err |-> "none", options |-> o2,
                   point |-> [PointBeforeBleeds(cd, o2) EXCEPT
                                 !.bleed_calls = connect_bleeds(cd, order),
                                 !.bleed = Range(connect_bleeds(cd, order))]]

-----------------------------------------------------------------------------
(* MPhbtf and runpyCycle: the multi-point model and the sweep               *)

\* HBTFBuilder(**kwargs): the options after initialize and the keyword
\* arguments, hbtf_builder.py lines 187-191
HBTFBuilder_options(kwargs) ==
    [has_data |-> kwargs.has_data, design |-> kwargs.design,
     throttle_mode |-> kwargs.throttle_mode, thermo_method |-> "CEA"]

\* MPhbtf.setup, lines 38-40, 98 and 104: the points in the order
\* pyc_add_pnt adds them, each with the keyword arguments of its builder;
\* only the first is given the cycle data
MPhbtf_points(has_data) ==
    << [name |-> "DESIGN",
        kwargs |-> [has_data |-> has_data, design |-> TRUE, throttle_mode |-> "T4"]],
       [name |-> "OD_full_pwr",
        kwargs |-> [has_data |-> FALSE, design |-> FALSE, throttle_mode |-> "T4"]],
       [name |-> "OD_part_pwr",
        kwargs |-> [has_data |-> FALSE, design |-> FALSE,
                    throttle_mode |-> "percent_thrust"]] >>

\* line 91
od_pts == << "OD_full_pwr", "OD_part_pwr" >>

\* a connection request self.connect("src_pt.src", "tgt_pt.tgt") of the
\* multi-point group, each path split at the name of its point
XConn(src_pt, src, tgt_pt, tgt) ==
    [src_pt |-> src_pt, src |-> src, tgt_pt |-> tgt_pt, tgt |-> tgt]

\* line 110: the connection between two points
MPhbtf_connects == << XConn("OD_full_pwr", "perf.Fn", "OD_part_pwr", "Fn_max") >>

\* a design-to-off-design request of the multi-point group: the method
\* called and its arguments
DesOd(op, args) == [op |-> op, args |-> args]

\* lines 112-116: pyc_use_default_des_od_conns() asks for pyCycle's default
\* connections from the design point to the elements of the off-design
\* points; pyc_connect_des_od(src, target) connects the design point's src
\* to target in every off-design point
MPhbtf_des_od ==
    << DesOd("pyc_use_default_des_od_conns", <<>>),
       DesOd("pyc_connect_des_od", << "core_nozz.Throat:stat:area", "balance.rhs:W" >>),
       DesOd("pyc_connect_des_od", << "byp_nozz.Throat:stat:area", "balance.rhs:BPR" >>) >>

\* The MPhbtf that runpyCycle imports (PropulsionDemo1.py line 2) comes from
\* the module high_bypass_turbofan, which the repository does not hold.  Of it
\* the model keeps what the specification says of a multi-point model
\* (section 4.4): its three points exist once prob.setup() has ended, each in
\* the state its name stands for, and the design point's two throat areas
\* are bound to the targets of balances W and BPR of every off-design
\* point.  What its points wire inside, and what it connects between two
\* off-design points, is not modelled.
ImportedPoint(name, kwargs) ==
    [name |-> name, err |-> "none",
     state |-> StateFor(kwargs.design, kwargs.throttle_mode),
     balances |-> <<>>, connects |-> <<>>, promotes |-> <<>>]

\* the imported multi-point model after prob.setup()
ImportedMP(m, pts) ==
    [m EXCEPT !.pnts = [i \in 1..Len(pts) |-> pts[i].name],
              !.des_od = MPhbtf_des_od,
              !.points = [i \in 1..Len(pts) |->
                             ImportedPoint(pts[i].name, pts[i].kwargs)]]

\* of a point the multi-point model keeps the state and the balance wiring
PointWiring(name, r) ==
    [name |-> name, err |-> r.err, state |-> r.point.state,
     balances |-> r.point.balances, connects |-> r.point.connects,
     promotes |-> r.point.promotes]

\* the multi-point model before prob.setup()
NewMP(cls, has_data) ==
    [cls |-> cls, has_data |-> has_data, pnts |-> <<>>, conns |-> <<>>,
     des_od |-> <<>>, points |-> <<>>]

\* prob.setup(), PropulsionDemo1.py line 121, on the MPhbtf of
\* propulsion_performance_builder.py: MPhbtf.setup declares the points and
\* the connections, then the setup of each point runs in the order the
\* points were added; the first exception ends prob.setup().  Line 36 reads
\* the option adhCycleData, declared at line 31 without a default: when
\* MPhbtf() was not given the cycle data the read raises RuntimeError and
\* nothing is declared.  On the MPhbtf of high_bypass_turbofan prob.setup()
\* ends with the three points in place.
prob_setup(cd, m, order) ==
    LET pts == MPhbtf_points(m.has_data)
    IN  IF m.cls = "high_bypass_turbofan"
        THEN [err |-> "none", mp |-> ImportedMP(m, pts)]
        ELSE IF ~m.has_data
        THEN [err |-> "RuntimeError:adhCycleData", mp |-> m]
        ELSE
        LET res == [i \in 1..Len(pts) |->
                       setup(cd, HBTFBuilder_options(pts[i].kwargs), order)]
            bad == {i \in 1..Len(pts) : res[i].err # "none"}
            last == IF bad = {} THEN Len(pts)
                    ELSE CHOOSE i \in bad : \A j \in bad : i <= j
        IN  [err |-> IF bad = {} THEN "none" ELSE res[last].err,
             mp  |-> [m EXCEPT !.pnts = [i \in 1..Len(pts) |-> pts[i].name],
                               !.conns = MPhbtf_connects,
                               !.des_od = MPhbtf_des_od,
                               !.points = [i \in 1..last |->
                                              PointWiring(pts[i].name, res[i])]]]

\* runpyCycle, lines 174-177: the (Mach number, altitude) pairs of the
\* sweep, the Mach number in thousandths
flight_env ==
    << <<800, 35000>>, <<400, 35000>>, <<400, 20000>>, <<800, 20000>>,
       <<800, 10000>>, <<400, 10000>>, <<1, 1000>>, <<200, 1000>> >>

\* line 195: the power codes of the inner loop, in percent
power_codes == << 100, 90, 80, 70 >>

\* the entries of the sweep in the order of the two loops, lines 181-197
sweep_entry(e) ==
    LET env == flight_env[((e - 1) \div Len(power_codes)) + 1]
    IN  [MN |-> env[1], alt |-> env[2],
         PC |-> power_codes[((e - 1) % Len(power_codes)) + 1]]

sweep_length == Len(flight_env) * Len(power_codes)

PointNames == {"DESIGN", "OD_full_pwr", "OD_part_pwr"}

\* a write prob.set_val(key, value) or prob[key] = value; values are kept
\* as text
Write(key, value) == <<key, value>>

\* lines 123-145: the inputs set once, before the loops; the values of the
\* turbomachinery come from the elements of the ADH instance
design_writes ==
    << Write("DESIGN.fan.PR", "elements[2].pr_des"),
       Write("DESIGN.fan.eff", "elements[2].eff_des"),
       Write("DESIGN.lpc.PR", "elements[5].pr_des"),
       Write("DESIGN.lpc.eff", "elements[5].eff_des"),
       Write("DESIGN.hpc.PR", "elements[7].pr_des"),
       Write("DESIGN.hpc.eff", "elements[7].eff_des"),
       Write("DESIGN.hpt.PR", "elements[10].eff_des"),
       Write("DESIGN.lpt.eff", "elements[12].eff_des"),
       Write("DESIGN.fc.alt", "elements[0].alt"),
       Write("DESIGN.fc.MN", "elements[0].mn"),
       Write("DESIGN.T4_MAX", "2857"),
       Write("DESIGN.Fn_DES", "5900"),
       Write("OD_full_pwr.T4_MAX", "2857"),
       Write("OD_part_pwr.PC", "80") >>

\* the inputs runpyCycle writes, lines 123-145 and 189-197
ProblemInputs ==
    {design_writes[i][1] : i \in 1..Len(design_writes)}
    \cup {"OD_full_pwr.fc.MN", "OD_full_pwr.fc.alt",
           "OD_part_pwr.fc.MN", "OD_part_pwr.fc.alt"}

\* the values of the inputs after a list of writes, the last write of a
\* key standing
ApplyWrites(vals, writes) ==
    [k \in DOMAIN vals |->
        LET at == {i \in 1..Len(writes) : writes[i][1] = k}
        IN  IF at = {} THEN vals[k]
            ELSE writes[CHOOSE i \in at : \A j \in at : j <= i][2]]

\* the writes of an entry with the Mach number written to the design point
\* as well
sweep_writes_WithDesign(e) ==
    LET s_ == sweep_entry(e)
    IN  (IF (e - 1) % Len(power_codes) = 0
         THEN << Write("DESIGN.fc.MN", ToString(s_.MN)),
                 Write("OD_full_pwr.fc.MN", ToString(s_.MN)),
                 Write("OD_full_pwr.fc.alt", ToString(s_.alt)),
                 Write("OD_part_pwr.fc.MN", ToString(s_.MN)),
                 Write("OD_part_pwr.fc.alt", ToString(s_.alt)) >>
         ELSE <<>>)
        \o << Write("OD_part_pwr.PC", ToString(s_.PC)) >>

\* lines 189-197: the writes made for entry e before its run_model: the
\* Mach number and altitude of the two off-design points when the outer
\* loop takes a new pair, the power code of OD_part_pwr at every entry
sweep_writes(e) ==
    LET s_ == sweep_entry(e)
    IN  (IF (e - 1) % Len(power_codes) = 0
         THEN << Write("OD_full_pwr.fc.MN", ToString(s_.MN)),
                 Write("OD_full_pwr.fc.alt", ToString(s_.alt)),
                 Write("OD_part_pwr.fc.MN", ToString(s_.MN)),
                 Write("OD_part_pwr.fc.alt", ToString(s_.alt)) >>
         ELSE <<>>)
        \o << Write("OD_part_pwr.PC", ToString(s_.PC)) >>

\* prob.run_model(), line 198, with the Newton solver of hbtf_builder.py
\* lines 359-368: err_on_non_converge is left unset, so a solve that does not
\* converge within maxiter prints a message and returns, and runpyCycle
\* goes on to its next statement
run_model_returns(outcome) == outcome \in {"converged", "failed"}

\* daveml_viewer(prob, pt, ADHInstance, first_pass, file=viewer_file), lines
\* 201 and 203: the call is handed the problem, whose inputs are those of
\* the entry, and the name of the point; the value prob.run_model() returned
\* at line 198 was not kept, and the call is the same whether the solves of
\* the entry converged or not
daveml_viewer(r, pt) ==
    [pt |-> pt, entry |-> r.entry, inputs |-> r.inputs]

\* runpyCycle before prob.setup()
NewRun ==
    [pc |-> "start", err |-> "none", entry |-> 0,
     inputs |-> [MN |-> 0, alt |-> 0, PC |-> 0], k |-> 0,
     solved |-> [n \in PointNames |-> "pending"], nfail |-> 0,
     first_pass |-> TRUE, report |-> <<>>,
     vals |-> [k \in ProblemInputs |-> "unset"], written |-> {}]

NoModel == NewMP(None, FALSE)
NotRunning == [NewRun EXCEPT !.pc = "idle"]

-----------------------------------------------------------------------------
(* HBTFBuilder.add_balances, lines 99-110 *)

\* a balance declaration handed to add_balances, by the class of the object:
\* a BalanceComponent of propulsion_cycle.py (lines 7-41: balance_name and
\* on_design are among its fields, val is not), a dictionary made by
\* getBalance (propulsion_performance_builder.py lines 320-331: it has keys
\* and no attributes), or an object that carries every attribute
\* add_balances reads.  on_design is the value of the attribute in a
\* sequence of one, the empty sequence when the object has no such attribute
BalanceDecl(cls, balance_name, on_design) ==
    [cls |-> cls, balance_name |-> balance_name,
     on_design |-> IF cls = "dict" THEN <<>> ELSE << on_design >>]

\* the declaration has an attribute val, which line 108 reads
has_val(bal) == bal.cls = "object"

RECURSIVE add_balances(_, _, _)
\* the keys of the cycle-data dictionary and of its entries that setup and
\* its helpers read: lines 197-229 and 353 for the dictionary and cycleInfo,
\* lines 24-95 and 113-183 for the entries
setup_reads ==
    [cycleInfo |-> {"throttle_mode", "design", "thermo_method",
                    "global_connections", "flow_connections"},
     fc        |-> {"name"},
     inlets    |-> {"name"},
     comp      |-> {"name", "map_data", "bleed_names", "map_extrap"},
     splitters |-> {"name"},
     duct      |-> {"name"},
     bleeds    |-> {"name", "bleed_names"},
     comb      |-> {"name", "fuel_type"},
     turb      |-> {"name", "map_data", "bleed_names", "map_extrap"},
     nozz      |-> {"name", "nozz_type", "loss_coef"},
     shafts    |-> {"name", "num_ports", "nmech_type"},
     perf      |-> {"name", "pt2_source", "ram_drag_source", "pt3_source",
                    "wfuel_0_source", "fg_0_source", "fg_1_source"}]

\* add_balances(balanceComp, balances, design): `added` is the list of names
\* balanceComp.add_balance was called with so far.  Line 101 reads
\* bal.on_design, which raises AttributeError on an object without it; a
\* declaration whose on_design differs from design makes no call and the
\* loop goes on; for one whose on_design equals design the arguments of
\* add_balance are evaluated first, and line 108 reads bal.val, which raises
\* AttributeError on an object without it, before any call is made
add_balances(added, balances, design) ==
    IF balances = <<>> THEN [added |-> added, err |-> "none"]
    ELSE LET bal == Head(balances)
         IN  IF bal.on_design = <<>>
             THEN [added |-> added, err |-> "AttributeError:on_design"]
             ELSE IF bal.on_design[1] # design
             THEN add_balances(added, Tail(balances), design)
             ELSE IF ~has_val(bal)
             THEN [added |-> added, err |-> "AttributeError:val"]
             ELSE add_balances(Append(added, bal.balance_name), Tail(balances), design)

\* the balance component with the declarations and the design flag that
\* add_balances is called with
NewBalanceComp(balances, design) ==
    [pc |-> "declared", balances |-> balances, design |-> design,
     added |-> <<>>, err |-> "none"]

NoBalanceComp == [NewBalanceComp(<<>>, TRUE) EXCEPT !.pc = "idle"]

-----------------------------------------------------------------------------
(* PropulsionPerformanceBuilder and pyCycleBuilder,                         *)
(* propulsion_performance_builder.py lines 121-407                          *)

\* an attribute that may not exist, a value that may be None: the empty
\* sequence, or the value in a sequence of one
Absent == <<>>
Some(x) == << x >>

\* an element of ADHInstance.cycle.elements: its class and its name
Element(cls, name) == [cls |-> cls, name |-> name]

\* the keys of the dictionary each accessor makes of one element,
\* lines 157, 168-174, 183-191, 200-207, 216-228, 237-245, 254-266, 275-283,
\* 292-297 and 306-310
AccessorKeys ==
    [FlightConditions |-> {"name", "mn", "alt", "d_ts"},
     Inlet      |-> {"name", "statics", "mn", "ram_recovery", "area"},
     Splitter   |-> {"name", "statics", "bpr", "mn1", "mn2", "area1", "area2"},
     Duct       |-> {"name", "statics", "dPqP", "mn", "Q_dot", "area"},
     Compressor |-> {"name", "statics", "map_data", "map_extrap", "map_interp_method",
                     "alpha_map", "bleed_names", "pr_des", "eff_des", "area", "mn"},
     Combustor  |-> {"name", "statics", "dp_qp", "FAR", "area", "mn", "fuel_type"},
     Turbine    |-> {"name", "statics", "map_data", "map_extrap", "map_interp_method",
                     "alpha_map", "pr_des", "eff_des", "bleed_names", "area", "mn"},
     Nozzle     |-> {"name", "statics", "nozz_type", "loss_coef", "cv", "area", "mn"},
     Shaft      |-> {"name", "num_ports", "nmech", "nmech_type"},
     Bleed      |-> {"name", "statics", "bleed_names"}]

\* getCycleInfo, lines 137-149: the keys of cycleInfo
CycleInfoKeys ==
    {"name", "design", "thermo_method", "thermo_data", "throttle_mode",
     "global_connections", "flow_connections", "solver_settings"}

\* one get* accessor, e.g. getCompressor, lines 211-230: a dictionary for
\* every element that is an instance of the class, in the order of
\* cycle.elements
getKind(elements, cls) ==
    LET Is(e) == e.cls = cls
        sel == SelectSeq(elements, Is)
    IN  [i \in 1..Len(sel) |-> [name |-> sel[i].name, keys |-> AccessorKeys[cls]]]

\* getBalance, lines 316-334: the keys of the dictionary of one balance
BalanceKeys ==
    {"name", "units", "eq_units", "lower", "upper", "lhs_name", "rhs_name",
     "rhs_val", "mult_val", "use_mult"}

\* getBalance, lines 316-334: a dictionary for every BalanceComponent of
\* cycle.balance_components, in the order of the list, its "name" the
\* balance_name of the component
getBalance(balance_components) ==
    LET Is(comp) == comp.cls = "BalanceComponent"
        sel == SelectSeq(balance_components, Is)
    IN  [i \in 1..Len(sel) |-> [name |-> sel[i].balance_name, keys |-> BalanceKeys]]

\* getInput, lines 346-359: the cycle-data dictionary
getInput(adh) ==
    [cycleInfo |-> [keys |-> CycleInfoKeys],
     fc        |-> getKind(adh.elements, "FlightConditions"),
     inlets    |-> getKind(adh.elements, "Inlet"),
     splitters |-> getKind(adh.elements, "Splitter"),
     duct      |-> getKind(adh.elements, "Duct"),
     comp      |-> getKind(adh.elements, "Compressor"),
     comb      |-> getKind(adh.elements, "Combustor"),
     turb      |-> getKind(adh.elements, "Turbine"),
     nozz      |-> getKind(adh.elements, "Nozzle"),
     shafts    |-> getKind(adh.elements, "Shaft"),
     bleeds    |-> getKind(adh.elements, "Bleed"),
     balances  |-> getBalance(adh.balance_components)]

\* the outcome of a call: the builder after it, with the call, the
\* exception it raised (or "none") and the value it returned; last_input
\* is the dictionary of the latest getInput that returned one
Called(b, op, arg, e, ret) ==
    [b EXCEPT !.call = [op |-> op, arg |-> arg, err |-> e, ret |-> ret],
              !.ncalls = b.ncalls + 1,
              !.ninputs = IF op = "getInput" THEN b.ninputs + 1 ELSE b.ninputs,
              !.last_input = IF op = "getInput" /\ ret # Absent THEN ret ELSE b.last_input]

\* PropulsionPerformanceBuilder.getInput(self), lines 336-361: getBalance
\* iterates cycle.balance_components (line 319), which is None unless the
\* declaration gives a list, and iterating None raises TypeError
PropulsionPerformanceBuilder_getInput(b) ==
    IF b.adh.balance_components = None
    THEN Called(b, "getInput", None, "TypeError:balance_components", Absent)
    ELSE Called([b EXCEPT !.cycleData = Some(getInput(b.adh))],
                "getInput", None, "none", Some(getInput(b.adh)))

\* PropulsionPerformanceBuilder.getOutput(self), lines 369-373: pass
PropulsionPerformanceBuilder_getOutput(b) ==
    Called(b, "getOutput", None, "none", Absent)

\* pyCycleBuilder.getInput(self, engineType), lines 382-386: it calls
\* super().getInput(engineType), and the parent's getInput takes no argument
\* beside self, so the call raises TypeError before the parent's body runs
pyCycleBuilder_getInput(b, engineType) ==
    Called(b, "getInput", engineType, "TypeError:getInput", Absent)

\* HBTFBuilder(adhCycleData=cycleData)
HBTFBuilder(cycleData_) == [cls |-> "HBTFBuilder", adhCycleData |-> cycleData_]

\* pyCycleBuilder.getOutput(self, engineType), lines 394-407; an attribute
\* that was never assigned raises AttributeError when read
pyCycleBuilder_getOutput(b, engineType) ==
    IF engineType = "HBTF"
    THEN IF b.cycleData = Absent
         THEN Called(b, "getOutput", engineType, "AttributeError:cycleData", Absent)
         ELSE LET obj == HBTFBuilder(b.cycleData[1])
              IN  Called([b EXCEPT !.pycycleObject = Some(obj)],
                         "getOutput", engineType, "none", Some(obj))
    ELSE IF b.pycycleObject = Absent
         THEN Called(b, "getOutput", engineType, "AttributeError:pycycleObject", Absent)
         ELSE Called(b, "getOutput", engineType, "none", b.pycycleObject)

\* __init__, lines 131-132: the builder keeps the ADH instance; cycleData
\* and pycycleObject are not attributes yet
NewBuilder(cls, adh) ==
    [pc |-> "open", cls |-> cls, adh |-> adh, cycleData |-> Absent,
     pycycleObject |-> Absent, last_input |-> Absent,
     call |-> [op |-> None, arg |-> None, err |-> "none", ret |-> Absent],
     ncalls |-> 0, ninputs |-> 0]

NoBuilder ==
    [NewBuilder(None, [elements |-> <<>>, balance_components |-> None])
        EXCEPT !.pc = "idle"]

-----------------------------------------------------------------------------
(* The declarations the model starts from.  Each family varies one part of *)
(* the demonstration engine's declaration and keeps the rest.              *)

CompPool == << "fan", "lpc", "hpc" >>
CompTokens == << "FanMap", "LPCMap", "HPCMap" >>
TurbPool == << "hpt", "lpt" >>
TurbTokens == << "HPTMap", "LPTMap" >>
BleedPool == << "bld3", "byp_bld" >>

CompName(i) == IF i <= Len(CompPool) THEN CompPool[i] ELSE "comp" \o ToString(i)
CompToken(i) == IF i <= Len(CompTokens) THEN CompTokens[i] ELSE "HPCMap"
TurbName(i) == IF i <= Len(TurbPool) THEN TurbPool[i] ELSE "turb" \o ToString(i)
TurbToken(i) == IF i <= Len(TurbTokens) THEN TurbTokens[i] ELSE "LPTMap"
BleedName(i) == IF i <= Len(BleedPool) THEN BleedPool[i] ELSE "bleed" \o ToString(i)

\* bleed_names of one element: a list over two port names
BleedNameSet == {"cool1", "cool2"}
BleedChoices == {[given |-> TRUE, names |-> B] : B \in SUBSET BleedNameSet}

\* map_data of one element: the five known tokens, an unknown one, None
MapTokens == {"FanMap", "LPCMap", "HPCMap", "LPTMap", "HPTMap", "AXI5", None}

\* throttle_mode of a declaration: the values of the validator, the value
\* of the builder's option, and one value neither knows
ThrottleTokens == {"T4", "percent_thrust", "percent_throttle", "N1"}

GenComps(n, tok, bl) ==
    [i \in 1..n |-> Turbo(CompName(i), tok[i], bl[i].given, bl[i].names)]
GenTurbs(n, tok, bl) ==
    [i \in 1..n |-> Turbo(TurbName(i), tok[i], bl[i].given, bl[i].names)]
GenBleeds(n, bl) ==
    [i \in 1..n |-> BleedEl(BleedName(i), bl[i].given, bl[i].names)]

DefaultCompTokens(n) == [i \in 1..n |-> CompToken(i)]
DefaultTurbTokens(n) == [i \in 1..n |-> TurbToken(i)]
NoBleeds(n) == [i \in 1..n |-> [given |-> TRUE, names |-> {}]]

\* HBTFBuilder(adhCycleData=cycleData), as pyCycleBuilder.getOutput builds it
DefaultCtor == [has_data |-> TRUE, design |-> TRUE, throttle_mode |-> "T4"]

\* the keyword arguments a caller gives: with or without the cycle data, a
\* design flag and a throttle mode
CtorSet ==
    [has_data : BOOLEAN, design : BOOLEAN,
     throttle_mode : {"T4", "percent_thrust", "percent_throttle"}]

\* the list `list` of elements with bleed_names = [] on every one
WithoutBleedNames(list) ==
    [i \in 1..Len(list) |-> [list[i] EXCEPT !.bleed_given = TRUE, !.bleed_names = {}]]

\* the elements of the demonstration engine whose bleed_names the bleed
\* family varies: the key of their list and their place in it
OwnerPool ==
    { <<"comp", 2>>, <<"comp", 3>>, <<"bleeds", 1>>, <<"turb", 1>>, <<"turb", 2>> }

\* the list `list` under key `key` with the bleed_names that `bl` gives to
\* the elements it names, and [] on the others
WithBleedNames(key, list, bl) ==
    [i \in 1..Len(list) |->
        IF <<key, i>> \in DOMAIN bl
        THEN [list[i] EXCEPT !.bleed_given = bl[<<key, i>>].given,
                             !.bleed_names = bl[<<key, i>>].names]
        ELSE [list[i] EXCEPT !.bleed_given = TRUE, !.bleed_names = {}]]

\* bleed family: the demonstration engine with any bleed_names on up to
\* MaxOwners of its compressors, Bleed elements and turbines, and the same
\* with the compressors, Bleed elements and turbines declared being fewer
BleedFamily ==
    {[DemoWithPerf EXCEPT !.comp = WithBleedNames("comp", DemoData.comp, bl),
                          !.bleeds = WithBleedNames("bleeds", DemoData.bleeds, bl),
                          !.turb = WithBleedNames("turb", DemoData.turb, bl)] :
        bl \in UNION {[S -> BleedChoices] :
                        S \in {T \in SUBSET OwnerPool : Cardinality(T) \in 1..MaxOwners}}}
    \cup
    {[DemoWithPerf EXCEPT !.comp = GenComps(n[1], DefaultCompTokens(n[1]), bc),
                          !.bleeds = GenBleeds(n[2], bb),
                          !.turb = GenTurbs(n[3], DefaultTurbTokens(n[3]), bt)] :
        <<n, bc, bb, bt>> \in
            UNION {{<<m, c, b, t>> : c \in [1..m[1] -> BleedChoices],
                                     b \in [1..m[2] -> BleedChoices],
                                     t \in [1..m[3] -> BleedChoices]} :
                     m \in {k \in (0..1) \X (0..1) \X (0..1) :
                              k[1] + k[2] + k[3] \in 1..MaxOwners}}}

\* the demonstration declaration with bleed_names = None, the default of the
\* field, on one compressor, turbine or Bleed element
NoneBleedFamily ==
    {[DemoWithPerf EXCEPT !.comp[i].bleed_given = FALSE, !.comp[i].bleed_names = {}] :
        i \in 1..Len(DemoData.comp)}
    \cup {[DemoWithPerf EXCEPT !.turb[i].bleed_given = FALSE, !.turb[i].bleed_names = {}] :
            i \in 1..Len(DemoData.turb)}
    \cup {[DemoWithPerf EXCEPT !.bleeds[i].bleed_given = FALSE, !.bleeds[i].bleed_names = {}] :
            i \in 1..Len(DemoData.bleeds)}

\* the demonstration declaration with no bleed name on its compressors and
\* turbines
PlainData ==
    [DemoWithPerf EXCEPT !.comp = WithoutBleedNames(DemoData.comp),
                         !.turb = WithoutBleedNames(DemoData.turb)]

\* the compressors and turbines of the demonstration engine, whose map_data
\* the map family varies
MappedPool ==
    { <<"comp", 1>>, <<"turb", 1>>, <<"turb", 2>> }

\* the list `list` under key `key` with the map_data that `tok` gives to the
\* elements it names
WithMapData(key, list, tok) ==
    [i \in 1..Len(list) |->
        IF <<key, i>> \in DOMAIN tok
        THEN [list[i] EXCEPT !.map_data = tok[<<key, i>>]]
        ELSE list[i]]

\* map family: the demonstration engine with any map token on up to
\* MaxMapped of its compressors and turbines, and a declaration of a single
\* compressor or turbine with any map token
MapFamily ==
    {[PlainData EXCEPT !.comp = WithMapData("comp", PlainData.comp, tok),
                       !.turb = WithMapData("turb", PlainData.turb, tok)] :
        tok \in UNION {[S -> MapTokens] :
                         S \in {T \in SUBSET MappedPool : Cardinality(T) \in 1..MaxMapped}}}
    \cup
    {[PlainData EXCEPT !.comp = GenComps(n[1], tc, NoBleeds(n[1])),
                       !.turb = GenTurbs(n[2], tt, NoBleeds(n[2]))] :
        <<n, tc, tt>> \in
            UNION {{<<m, c, t>> : c \in [1..m[1] -> MapTokens],
                                  t \in [1..m[2] -> MapTokens]} :
                     m \in {<<1, 0>>, <<0, 1>>}}}

\* shaft family: global_connections of up to MaxPairs entries over declared
\* and undeclared names, on the demonstration engine and on declarations
\* with fewer compressors, turbines and shafts
PairPool ==
    { <<"fan", "lp_shaft">>, <<"lpc", "lp_shaft">>, <<"lpc", "hp_shaft">>,
      <<"hpt", "hp_shaft">>, <<"hpt", "lp_shaft">>,
      <<"ghost", "lp_shaft">>, <<"fan", "no_shaft">> }

ShaftFamily ==
    {[PlainData EXCEPT !.comp = SubSeq(PlainData.comp, 1, nc),
                       !.turb = SubSeq(PlainData.turb, 1, nt),
                       !.shafts = SubSeq(DemoData.shafts, 1, ns),
                       !.cycleInfo.global_connections = gc] :
        <<nc, nt, ns>> \in {<<3, 2, 2>>, <<2, 1, 1>>},
        gc \in SeqsUpTo(PairPool, MaxPairs)}

\* the containers a declaration gives its connections in: the lists of the
\* demonstration, or dictionaries whose keys are the entries
Containers == {"list", "dict"}

ContainerChoices ==
    {[global_connections |-> g, flow_connections |-> f] : g \in Containers, f \in Containers}

\* both connections given in the same container
SameContainer == {c \in ContainerChoices : c.global_connections = c.flow_connections}

\* container family: the demonstration declaration with each of its two
\* connection fields given as a list or as a dictionary
ContainerFamily == {[DemoWithPerf EXCEPT !.given_as = c] : c \in ContainerChoices}

\* mode family: any design flag, throttle mode and thermodynamic method,
\* with or without the "perf" entry, the connections given both as lists
\* or both as dictionaries
ModeFamily ==
    {[cd EXCEPT !.cycleInfo.design = d,
                !.cycleInfo.throttle_mode = tm,
                !.cycleInfo.thermo_method = th,
                !.given_as = c] :
        cd \in {DemoData, DemoWithPerf},
        d \in BOOLEAN, tm \in ThrottleTokens, th \in {"CEA", "TABULAR", "IDEAL"},
        c \in SameContainer}

\* flow family: flow_connections of up to MaxFlows entries: declared pairs,
\* indexed outlets, a second feed into an inlet, and undeclared names
FlowPool ==
    { <<"fc", "inlet">>, <<"inlet", "fan">>, <<"fan", "splitter">>,
      <<"splitter", "duct4", "1">>, <<"splitter", "byp_bld", "2">>,
      <<"lpc", "splitter">>, <<"ghost", "fan">>, <<"fan", "nowhere">> }

FlowFamily ==
    {[PlainData EXCEPT !.cycleInfo.flow_connections = fl] :
        fl \in SeqsUpTo(FlowPool, MaxFlows)}

FCPool == << "fc" >>
NozzPool == << "core_nozz", "byp_nozz" >>

FCName(i) == IF i <= Len(FCPool) THEN FCPool[i] ELSE "fc" \o ToString(i)
NozzName(i) == IF i <= Len(NozzPool) THEN NozzPool[i] ELSE "nozz" \o ToString(i)

\* the elements of the demonstration engine that the ambient family
\* declares as a FlightConditions, a Duct or a Nozzle
AmbientPool == << "fc", "duct4", "duct6", "core_nozz", "byp_nozz" >>

\* the FlightConditions, ducts and nozzles of the demonstration engine in
\* the order of elements=[...], lines 455-472
AmbientOrder ==
    << "fc", "duct4", "duct6", "duct11", "duct13", "core_nozz", "duct15", "byp_nozz" >>

\* the names of AmbientOrder declared as `k`, in the order of the
\* declaration (each accessor of getInput walks cycle.elements and appends
\* the elements of its class): the elements of AmbientPool are declared as
\* `kind` says, the other ones are ducts
OfKind(kind, k) ==
    LET Is(n) == IF n \in Range(AmbientPool) THEN kind[n] = k ELSE k = "Duct"
    IN  SelectSeq(AmbientOrder, Is)

\* the demonstration engine with the elements of AmbientPool declared as
\* `kind` says
Rekinded(kind) ==
    LET f == OfKind(kind, "FlightConditions")
        d == OfKind(kind, "Duct")
        n == OfKind(kind, "Nozzle")
    IN  [PlainData EXCEPT
            !.fc = [i \in 1..Len(f) |-> [name |-> f[i]]],
            !.duct = [i \in 1..Len(d) |-> [name |-> d[i]]],
            !.nozz = [i \in 1..Len(n) |-> NozzEl(n[i], "CV", "Cv")]]

\* ambient family: up to MaxFCs FlightConditions and up to MaxNozz nozzles,
\* under the names of the demonstration engine and under further names
AmbientFamily ==
    {Rekinded(kind) :
        kind \in {k \in [Range(AmbientPool) -> {"FlightConditions", "Duct", "Nozzle"}] :
                    /\ Len(OfKind(k, "FlightConditions")) <= MaxFCs
                    /\ Len(OfKind(k, "Nozzle")) <= MaxNozz}}
    \cup
    {[PlainData EXCEPT !.fc = [i \in 1..nf |-> [name |-> FCName(i)]],
                       !.nozz = [i \in 1..nn |-> NozzEl(NozzName(i), "CV", "Cv")]] :
        nf \in 0..MaxFCs, nn \in 0..MaxNozz}

\* the smallest declaration: one FlightConditions, Inlet, Compressor and
\* Nozzle in a line, as getInput hands it over (the dictionary has no key
\* "perf", lines 347-360 of propulsion_performance_builder.py)
LinearData ==
    [cycleInfo |-> [design |-> TRUE, thermo_method |-> "TABULAR",
                    throttle_mode |-> "T4", global_connections |-> <<>>,
                    flow_connections |->
                        << <<"fc", "inlet">>, <<"inlet", "fan">>, <<"fan", "nozz">> >>],
     fc        |-> << [name |-> "fc"] >>,
     inlets    |-> << [name |-> "inlet"] >>,
     splitters |-> <<>>,
     duct      |-> <<>>,
     comp      |-> << Turbo("fan", "FanMap", TRUE, {}) >>,
     comb      |-> <<>>,
     turb      |-> <<>>,
     nozz      |-> << NozzEl("nozz", "CV", "Cv") >>,
     shafts    |-> <<>>,
     bleeds    |-> <<>>,
     has_perf  |-> FALSE,
     perf      |-> <<>>,
     fuel_type |-> "FAR",
     given_as  |-> [global_connections |-> "list", flow_connections |-> "list"]]

\* linear family: the smallest declaration in either mode and method, as
\* getInput hands it over and with the entry "perf" written into it
LinearFamily ==
    {[LinearData EXCEPT !.cycleInfo.design = d,
                        !.cycleInfo.throttle_mode = tm,
                        !.cycleInfo.thermo_method = th,
                        !.has_perf = hp,
                        !.perf = IF hp THEN << PerfEl("perf") >> ELSE <<>>] :
        d \in BOOLEAN, tm \in throttle_mode_values, th \in {"CEA", "TABULAR"},
        hp \in BOOLEAN}

\* fuel family: the burner with an allowed fuel type, another one, or none,
\* under any thermodynamic method and any fuel type of the cycle, the
\* connections given both as lists or both as dictionaries
FuelTokens == {"FAR", "Jet-A(g)", "diesel", None}

CycleFuelTokens == {"FAR", "Jet-A(g)", "diesel"}

FuelFamily ==
    {[PlainData EXCEPT !.comb = << CombEl("burner", f) >>,
                       !.cycleInfo.thermo_method = th,
                       !.fuel_type = cf,
                       !.given_as = c] :
        f \in FuelTokens, th \in {"CEA", "TABULAR", "IDEAL"}, cf \in CycleFuelTokens,
        c \in SameContainer}

\* nozzle family: the two nozzles declared with no nozz_type and loss_coef,
\* the fields' default, or with the values pyCycle knows
NozzTypeTokens == {None, "CV", "CD"}
LossCoefTokens == {None, "Cv", "Cfg"}

NozzleFamily ==
    {[PlainData EXCEPT !.nozz = << NozzEl("core_nozz", t[1], l[1]),
                                   NozzEl("byp_nozz", t[2], l[2]) >>] :
        t \in NozzTypeTokens \X NozzTypeTokens, l \in LossCoefTokens \X LossCoefTokens}

\* speed family: the two shafts declared with no nmech_type, "LP" or "HP",
\* the low-pressure turbine with no map token or either turbine map
ShaftSpeedTokens == {None, "LP", "HP"}

SpeedFamily ==
    {[DemoWithPerf EXCEPT !.shafts = << ShaftEl("lp_shaft", 3, a), ShaftEl("hp_shaft", 2, b) >>,
                          !.turb[2].map_data = t] :
        a \in ShaftSpeedTokens, b \in ShaftSpeedTokens, t \in {None, "LPTMap", "HPTMap"}}

\* constructor family: any design flag and throttle mode in the declaration,
\* met by any keyword arguments of the constructor
CtorFamily ==
    {[DemoWithPerf EXCEPT !.cycleInfo.design = d, !.cycleInfo.throttle_mode = tm] :
        d \in BOOLEAN, tm \in ThrottleTokens}

NewOptions == [has_data |-> FALSE, design |-> TRUE, throttle_mode |-> "T4",
               thermo_method |-> "CEA"]

Init ==
    /\ \/ /\ cycleData \in BleedFamily \cup NoneBleedFamily \cup MapFamily \cup ShaftFamily \cup FlowFamily
                              \cup AmbientFamily \cup LinearFamily \cup ModeFamily
                              \cup FuelFamily \cup SpeedFamily \cup NozzleFamily
                              \cup ContainerFamily
          /\ ctor = DefaultCtor
       \/ cycleData \in CtorFamily /\ ctor \in CtorSet
    /\ cycleStatus = [verdict |-> "unchecked", fields |-> {}]
    /\ options = NewOptions
    /\ pc = "declared"
    /\ err = "none"
    /\ point = EmptyPoint
    /\ nsetup = 0
    /\ mp = NoModel
    /\ run = NotRunning
    /\ bcomp = NoBalanceComp
    /\ builder = NoBuilder

-----------------------------------------------------------------------------
(* Actions *)

\* The declaration is made: Combustor(...) for every burner, then
\* PropulsionCycle(...), which checks the connection fields against their
\* type and runs its three field validators; the ValidationError names
\* every field that failed
ValidateCycle ==
    /\ pc = "declared"
    /\ cycleStatus.verdict = "unchecked"
    /\ cycleStatus' =
          IF \E i \in 1..Len(cycleData.comb) : ~Combustor_accepts(cycleData.comb[i].fuel_type)
          THEN [verdict |-> "rejected", fields |-> {"Combustor.fuel_type"}]
          ELSE LET bad == RejectedFields(cycleData)
               IN  [verdict |-> IF bad = {} THEN "accepted" ELSE "rejected", fields |-> bad]
    /\ UNCHANGED <<cycleData, ctor, options, pc, err, point, nsetup, mp, run,
                   bcomp, builder>>

\* HBTFBuilder(**ctor): initialize declares the options, then the keyword
\* arguments are set; a throttle_mode outside the declared values raises.
\* The builder is made after the declaration, whose validators have run by
\* then; what the builder does with the fields of a rejected declaration is
\* followed all the same.
Construct ==
    /\ pc = "declared"
    /\ cycleStatus.verdict # "unchecked"
    /\ IF ctor.throttle_mode \in throttle_mode_values
       THEN /\ options' = [has_data |-> ctor.has_data, design |-> ctor.design,
                           throttle_mode |-> ctor.throttle_mode,
                           thermo_method |-> "CEA"]
            /\ pc' = "constructed"
            /\ err' = "none"
       ELSE /\ options' = options
            /\ pc' = "failed"
            /\ err' = "ValueError:throttle_mode"
    /\ UNCHANGED <<cycleData, cycleStatus, ctor, point, nsetup, mp, run, bcomp, builder>>

\* prob.setup(): HBTFBuilder.setup runs on the constructed builder, again
\* on one that was set up before
Setup ==
    /\ pc \in {"constructed", "built"}
    /\ nsetup < MaxSetups
    /\ \E order \in IterationOrders(cycleData) :
          \E r \in {setup(cycleData, options, order)} :
              /\ options' = r.options
              /\ point' = r.point
              /\ err' = r.err
              /\ pc' = IF r.err = "none" THEN "built" ELSE "failed"
    /\ nsetup' = nsetup + 1
    /\ UNCHANGED <<cycleData, cycleStatus, ctor, mp, run, bcomp, builder>>

Next == ValidateCycle \/ Construct \/ Setup

Spec == Init /\ [][Next]_vars

-----------------------------------------------------------------------------
(* runpyCycle on the demonstration declaration *)

\* the multi-point class the run instantiates: MPhbtf of
\* propulsion_performance_builder.py without the cycle data (as runpyCycle
\* calls it, line 120) or with it (as line 405 of that file would), or the
\* MPhbtf of high_bypass_turbofan
MPChoices ==
    {NewMP("propulsion_performance_builder", FALSE),
     NewMP("propulsion_performance_builder", TRUE),
     NewMP("high_bypass_turbofan", TRUE)}

RunInit ==
    /\ cycleData \in {DemoData, DemoWithPerf}
    /\ cycleStatus = [verdict |-> "unchecked", fields |-> {}]
    /\ ctor = DefaultCtor
    /\ options = NewOptions
    /\ pc = "declared"
    /\ err = "none"
    /\ point = EmptyPoint
    /\ nsetup = 0
    /\ mp \in MPChoices
    /\ run = NewRun
    /\ bcomp = NoBalanceComp
    /\ builder = NoBuilder

builder_vars == <<cycleData, cycleStatus, ctor, options, pc, err, point, nsetup,
                  bcomp, builder>>

\* lines 119-145: prob.setup(), then the inputs set before the loops
ProbSetup ==
    /\ run.pc = "start"
    /\ \E order \in IterationOrders(cycleData) :
          \E r \in {prob_setup(cycleData, mp, order)} :
              /\ mp' = r.mp
              /\ run' = [run EXCEPT !.pc = IF r.err = "none" THEN "loop" ELSE "aborted",
                                    !.err = r.err,
                                    !.entry = IF r.err = "none" THEN 1 ELSE 0,
                                    !.vals = IF r.err = "none"
                                             THEN ApplyWrites(run.vals, design_writes)
                                             ELSE run.vals]
    /\ UNCHANGED builder_vars

\* lines 181-197: the loops set the Mach number, the altitude and the power
\* code of the next entry
SetInputs ==
    /\ run.pc = "loop"
    /\ run' = [run EXCEPT !.inputs = sweep_entry(run.entry),
                          !.vals = ApplyWrites(run.vals, sweep_writes(run.entry)),
                          !.written = {sweep_writes(run.entry)[i][1] :
                                          i \in 1..Len(sweep_writes(run.entry))},
                          !.pc = "run_model",
                          !.k = 0,
                          !.solved = [n \in PointNames |-> "pending"]]
    /\ UNCHANGED <<builder_vars, mp>>

\* line 198: prob.run_model() solves the points in the order they were
\* added; each solve converges or does not
SolvePoint ==
    /\ run.pc = "run_model"
    /\ \E outcome \in {"converged", "failed"} :
          /\ outcome = "failed" => run.nfail < MaxFailures
          /\ run' = [run EXCEPT
                        !.solved[mp.pnts[run.k + 1]] = outcome,
                        !.k = run.k + 1,
                        !.nfail = IF outcome = "failed" THEN run.nfail + 1 ELSE run.nfail,
                        !.err = IF run_model_returns(outcome) THEN run.err
                                ELSE "AnalysisError",
                        !.pc = IF ~run_model_returns(outcome) THEN "aborted"
                               ELSE IF run.k + 1 = Len(mp.pnts) THEN "report"
                               ELSE "run_model"]
    /\ UNCHANGED <<builder_vars, mp>>

\* lines 200-203 and the end of the loops, lines 210-212
Report ==
    /\ run.pc = "report"
    /\ run' = [run EXCEPT
                  !.report = run.report
                             \o (IF run.first_pass THEN << daveml_viewer(run, "DESIGN") >>
                                 ELSE <<>>)
                             \o << daveml_viewer(run, "OD_part_pwr") >>,
                  !.first_pass = FALSE,
                  !.entry = IF run.entry = sweep_length THEN run.entry ELSE run.entry + 1,
                  !.pc = IF run.entry = sweep_length THEN "done" ELSE "loop"]
    /\ UNCHANGED <<builder_vars, mp>>

RunNext == ProbSetup \/ SetInputs \/ SolvePoint \/ Report

RunSpec == RunInit /\ [][RunNext]_vars

-----------------------------------------------------------------------------
(* add_balances on a list of balance declarations *)

\* balance declarations: two names, each for the design point or for the
\* off-design points, as a BalanceComponent or as an object carrying val,
\* and as the dictionary getBalance makes of a BalanceComponent
BalancePool ==
    {BalanceDecl(c, n, d) : c \in {"BalanceComponent", "object"},
                            n \in {"W", "FAR"}, d \in BOOLEAN}
    \cup {BalanceDecl("dict", n, FALSE) : n \in {"W", "FAR"}}

BalanceInit ==
    /\ cycleData = DemoData
    /\ cycleStatus = [verdict |-> "unchecked", fields |-> {}]
    /\ ctor = DefaultCtor
    /\ options = NewOptions
    /\ pc = "declared"
    /\ err = "none"
    /\ point = EmptyPoint
    /\ nsetup = 0
    /\ mp = NoModel
    /\ run = NotRunning
    /\ \E balances \in SeqsUpTo(BalancePool, MaxBalances), design \in BOOLEAN :
          bcomp = NewBalanceComp(balances, design)
    /\ builder = NoBuilder

\* add_balances(balance, balances, design) returns after its loop, or
\* raises at the first declaration that lacks an attribute it reads
AddBalances ==
    /\ bcomp.pc = "declared"
    /\ LET r == add_balances(bcomp.added, bcomp.balances, bcomp.design)
       IN  bcomp' = [bcomp EXCEPT
                       !.added = r.added,
                       !.err = r.err,
                       !.pc = IF r.err = "none" THEN "added" ELSE "raised"]
    /\ UNCHANGED <<cycleData, cycleStatus, ctor, options, pc, err, point, nsetup,
                   mp, run, builder>>

BalanceNext == AddBalances

BalanceSpec == BalanceInit /\ [][BalanceNext]_vars

-----------------------------------------------------------------------------
(* getInput and getOutput called on one builder *)

\* the classes of propulsion_cycle.py an element can be made of, with a
\* name each, and a second compressor
ElementPool ==
    {Element("FlightConditions", "fc"), Element("Inlet", "inlet"),
     Element("Compressor", "fan"), Element("Compressor", "lpc"),
     Element("Splitter", "splitter"), Element("Duct", "duct4"),
     Element("Bleed", "bld3"), Element("Combustor", "burner"),
     Element("Turbine", "hpt"), Element("Nozzle", "core_nozz"),
     Element("Shaft", "lp_shaft"), Element("Performance", "perf"),
     Element("EngineElement", "misc")}

EngineTypes == {"HBTF", "NPSS"}

\* balance_components of the cycle: not given (None), an empty list, one
\* BalanceComponent, or two
BalanceComponentsPool ==
    {None, <<>>,
     << BalanceDecl("BalanceComponent", "W", TRUE) >>,
     << BalanceDecl("BalanceComponent", "W", TRUE),
        BalanceDecl("BalanceComponent", "FAR", FALSE) >>}

BuilderInit ==
    /\ cycleData = DemoData
    /\ cycleStatus = [verdict |-> "unchecked", fields |-> {}]
    /\ ctor = DefaultCtor
    /\ options = NewOptions
    /\ pc = "declared"
    /\ err = "none"
    /\ point = EmptyPoint
    /\ nsetup = 0
    /\ mp = NoModel
    /\ run = NotRunning
    /\ bcomp = NoBalanceComp
    /\ \E cls \in {"PropulsionPerformanceBuilder", "pyCycleBuilder"},
          elements \in SeqsUpTo(ElementPool, MaxElements),
          balance_components \in BalanceComponentsPool :
          builder = NewBuilder(cls, [elements |-> elements,
                                     balance_components |-> balance_components])

other_vars == <<cycleData, cycleStatus, ctor, options, pc, err, point, nsetup,
                mp, run, bcomp>>

\* builder.getInput() on a PropulsionPerformanceBuilder,
\* builder.getInput(engineType) on a pyCycleBuilder, and the inherited
\* method called on a pyCycleBuilder,
\* PropulsionPerformanceBuilder.getInput(builder)
GetInput ==
    /\ builder.pc = "open"
    /\ builder.ncalls < MaxCalls
    /\ \/ /\ builder.cls = "PropulsionPerformanceBuilder"
          /\ builder' = PropulsionPerformanceBuilder_getInput(builder)
       \/ /\ builder.cls = "pyCycleBuilder"
          /\ \E engineType \in EngineTypes :
                builder' = pyCycleBuilder_getInput(builder, engineType)
       \/ /\ builder.cls = "pyCycleBuilder"
          /\ builder' = PropulsionPerformanceBuilder_getInput(builder)
    /\ UNCHANGED other_vars

\* builder.getOutput() on a PropulsionPerformanceBuilder,
\* builder.getOutput(engineType) on a pyCycleBuilder
GetOutput ==
    /\ builder.pc = "open"
    /\ builder.ncalls < MaxCalls
    /\ \/ /\ builder.cls = "PropulsionPerformanceBuilder"
          /\ builder' = PropulsionPerformanceBuilder_getOutput(builder)
       \/ /\ builder.cls = "pyCycleBuilder"
          /\ \E engineType \in EngineTypes :
                builder' = pyCycleBuilder_getOutput(builder, engineType)
    /\ UNCHANGED other_vars

\* between two calls the caller adds an element to the cycle of the ADH
\* instance, which the builder holds by reference
EditCycle ==
    /\ builder.pc = "open"
    /\ Len(builder.adh.elements) < MaxElements
    /\ \E e \in ElementPool :
          builder' = [builder EXCEPT !.adh.elements = Append(@, e)]
    /\ UNCHANGED other_vars

BuilderNext == GetInput \/ GetOutput \/ EditCycle

BuilderSpec == BuilderInit /\ [][BuilderNext]_vars

-----------------------------------------------------------------------------
(* Vocabulary of the properties *)

Built == pc = "built"

\* setup has run and ended, with or without an exception
SetupEnded == nsetup > 0 /\ pc \in {"built", "failed"}

\* setup got as far as assigning the option throttle_mode, line 197
ReachedThrottleMode == SetupEnded /\ err # "RuntimeError:adhCycleData"

\* setup got past the add_* helpers, lines 209-218
ReachedElements == ReachedThrottleMode /\ err # "ValueError:throttle_mode"

\* setup got past add_perfomance, line 221
ReachedConnections == ReachedElements /\ err # "KeyError:perf"

\* setup got past set_order and connect_flow, lines 325-353
ReachedFlow == ReachedConnections /\ err # "ValueError:set_order"

\* setup got past connect_bleeds, line 356
ReachedBleeds == ReachedFlow /\ err # "TypeError:bleed_names"

CompNamesOf(cd) == {cd.comp[i].name : i \in 1..Len(cd.comp)}
TurbNamesOf(cd) == {cd.turb[i].name : i \in 1..Len(cd.turb)}
BleedElNamesOf(cd) == {cd.bleeds[i].name : i \in 1..Len(cd.bleeds)}
ShaftNamesOf(cd) == {cd.shafts[i].name : i \in 1..Len(cd.shafts)}

\* the elements declaring bleed name bn, by kind
CompOwners(cd, bn) ==
    {cd.comp[i].name : i \in {k \in 1..Len(cd.comp) : bn \in cd.comp[k].bleed_names}}
TurbOwners(cd, bn) ==
    {cd.turb[i].name : i \in {k \in 1..Len(cd.turb) : bn \in cd.turb[k].bleed_names}}
BleedElOwners(cd, bn) ==
    {cd.bleeds[i].name : i \in {k \in 1..Len(cd.bleeds) : bn \in cd.bleeds[k].bleed_names}}
Owners(cd, bn) == CompOwners(cd, bn) \cup TurbOwners(cd, bn) \cup BleedElOwners(cd, bn)

AllBleedNames(cd) == {bn \in BleedNameSet \cup {"cool3", "cool4", "cust", "bypBld"} :
                        Owners(cd, bn) # {}}

\* the bleed edges made for one name
EdgesOf(pt, bn) == {e \in pt.bleed : e.bleed = bn}

-----------------------------------------------------------------------------
(* C1: bleed resolution *)

\* C1 as stated: in a point whose setup got past connect_bleeds, every
\* declared bleed name has exactly two declaring elements and exactly one
\* bleed edge, or setup failed with AmbiguousBleedError.
C1_ResolvedOrAmbiguous ==
    ReachedBleeds =>
        \/ err = "AmbiguousBleedError"
        \/ \A bn \in AllBleedNames(cycleData) :
              /\ Cardinality(Owners(cycleData, bn)) = 2
              /\ Cardinality(EdgesOf(point, bn)) = 1

-----------------------------------------------------------------------------
(* C2: two producers, no consumer *)

\* C2 as stated: when a bleed name is declared by exactly two compressors and
\* by no other element, a setup that got past connect_bleeds has failed with
\* AmbiguousBleedError and no bleed edge joins the two compressors.
C2_TwoCompressorsRejected ==
    ReachedBleeds =>
        \A bn \in AllBleedNames(cycleData) :
            (Cardinality(CompOwners(cycleData, bn)) = 2
             /\ Owners(cycleData, bn) = CompOwners(cycleData, bn)) =>
                /\ err = "AmbiguousBleedError"
                /\ EdgesOf(point, bn) = {}

-----------------------------------------------------------------------------
(* C3: roles by kind *)

KindRank(cd, name) ==
    IF name \in CompNamesOf(cd) THEN 1
    ELSE IF name \in BleedElNamesOf(cd) THEN 2 ELSE 3

\* C3 as stated: the source of every bleed edge is a compressor or a turbine,
\* and a Bleed element is never the source.
C3_BleedElementNeverSource ==
    \A e \in point.bleed :
        /\ e.src \in CompNamesOf(cycleData) \cup TurbNamesOf(cycleData)
        /\ e.src \notin BleedElNamesOf(cycleData)

\* C3 amended: in every bleed edge the source comes no later than the
\* destination in the order compressor, Bleed element, turbine: a turbine is
\* the source only of an edge to another turbine, a compressor the
\* destination only of an edge from another compressor, and a Bleed element
\* is the source of the edge it shares with a turbine.
C3_SourceByKindOrder ==
    \A e \in point.bleed :
        /\ e.src # e.dst
        /\ KindRank(cycleData, e.src) <= KindRank(cycleData, e.dst)
        /\ (e.src \in TurbNamesOf(cycleData) => e.dst \in TurbNamesOf(cycleData))
        /\ (e.dst \in CompNamesOf(cycleData) => e.src \in CompNamesOf(cycleData))

\* a built point with a bleed edge from a Bleed element to a turbine
C3_Witness ==
    /\ Built
    /\ \E e \in point.bleed :
          e.src \in BleedElNamesOf(cycleData) /\ e.dst \in TurbNamesOf(cycleData)

-----------------------------------------------------------------------------
(* C4: the balance set of each state *)

DesignNames == {"W", "FAR", "lpt_PR", "hpt_PR"}
OffDesignNames == {"FAR", "W", "BPR", "lp_Nmech", "hp_Nmech"}

\* C4: in every built point the state is one of Design, OffDesign-T4 and
\* OffDesign-PercentThrust, the names of the active balance set are pairwise
\* different, and the set is {W, FAR, lpt_PR, hpt_PR} in Design and
\* {FAR, W, BPR, lp_Nmech, hp_Nmech} in the two off-design states.
C4_BalanceSetPerState ==
    Built =>
        /\ point.state \in {"Design", "OffDesign-T4", "OffDesign-PercentThrust"}
        /\ Cardinality(Range(BalanceNames(point))) = Len(point.balances)
        /\ point.state = "Design" => Range(BalanceNames(point)) = DesignNames
        /\ point.state # "Design" => Range(BalanceNames(point)) = OffDesignNames

\* a point built in the state OffDesign-PercentThrust with five balances
C4_Witness ==
    Built /\ point.state = "OffDesign-PercentThrust" /\ Len(point.balances) = 5

-----------------------------------------------------------------------------
(* C5: the residual wiring of each state *)

\* balance `name` pairs the shaft's power-in (LHS) against its power-out
\* (RHS) with multiplier -1
ShaftBalance(pt, name, shaft) ==
    /\ LHS(pt, name) = {shaft \o ".pwr_in_real"}
    /\ RHS(pt, name) = {shaft \o ".pwr_out_real"}
    /\ MULT(pt, name) = {}
    /\ BalanceOf(pt, name) # {}
    /\ \A b \in BalanceOf(pt, name) : b.use_mult /\ b.mult_val = -1

\* balance `name` is wired in pt as in qt
SameWiring(pt, qt, name) ==
    /\ LHS(pt, name) = LHS(qt, name)
    /\ RHS(pt, name) = RHS(qt, name)
    /\ MULT(pt, name) = MULT(qt, name)
    /\ BalanceOf(pt, name) = BalanceOf(qt, name)

\* C5: in every built point the shaft balances pair power-in against
\* power-out of their own shaft with multiplier -1; FAR pairs the combustor
\* exit temperature against the T4 target in Design and OffDesign-T4, and
\* the net thrust against the reference maximum thrust scaled by the
\* multiplier in OffDesign-PercentThrust, whose W, BPR, lp_Nmech and
\* hp_Nmech balances are those of OffDesign-T4.
C5_ResidualWiring ==
    Built =>
        /\ point.state = "Design" =>
              /\ ShaftBalance(point, "lpt_PR", "lp_shaft")
              /\ ShaftBalance(point, "hpt_PR", "hp_shaft")
        /\ point.state \in {"OffDesign-T4", "OffDesign-PercentThrust"} =>
              /\ ShaftBalance(point, "lp_Nmech", "lp_shaft")
              /\ ShaftBalance(point, "hp_Nmech", "hp_shaft")
        /\ point.state \in {"Design", "OffDesign-T4"} =>
              /\ LHS(point, "FAR") = {"burner.Fl_O:tot:T"}
              /\ RHS(point, "FAR") = {"T4_MAX"}
              /\ MULT(point, "FAR") = {}
        /\ point.state = "OffDesign-PercentThrust" =>
              /\ RHS(point, "FAR") = {"perf.Fn"}
              /\ LHS(point, "FAR") = {"Fn_max"}
              /\ MULT(point, "FAR") = {"PC"}
              /\ \A b \in BalanceOf(point, "FAR") : b.use_mult
              /\ \A n \in {"W", "BPR", "lp_Nmech", "hp_Nmech"} :
                    SameWiring(point, setup_balances(FALSE, "T4"), n)

\* a point built in OffDesign-PercentThrust whose FAR balance reads the net
\* thrust
C5_Witness ==
    Built /\ point.state = "OffDesign-PercentThrust" /\ "perf.Fn" \in RHS(point, "FAR")

-----------------------------------------------------------------------------
(* C6: the state is the one the constructor's arguments select *)

\* C6 as stated: the state of a built point is the one selected by the
\* design flag and the throttle mode given to the constructor.
C6_StateFromConstructor ==
    Built => point.state = StateFor(ctor.design, ctor.throttle_mode)

-----------------------------------------------------------------------------
(* C7: the validator and the builder accept the same throttle modes *)

\* C7 as stated: for a declaration that was validated and then set up, the
\* validator rejects the field throttle_mode exactly when the builder
\* rejects it, and both accept T4 and percent_thrust.
C7_ValidatorMatchesBuilder ==
    cycleStatus.verdict # "unchecked" /\ ReachedThrottleMode =>
        /\ "throttle_mode" \in cycleStatus.fields <=> err = "ValueError:throttle_mode"
        /\ cycleData.cycleInfo.throttle_mode \in {"T4", "percent_thrust"} =>
              /\ "throttle_mode" \notin cycleStatus.fields
              /\ err # "ValueError:throttle_mode"

-----------------------------------------------------------------------------
(* C8: map-group resolution *)

SubsystemsNamed(pt, name) ==
    {pt.subsystems[i] : i \in {k \in 1..Len(pt.subsystems) : pt.subsystems[k].name = name}}

GroupOfCompressorToken(tok) ==
    IF tok \in {"FanMap", "LPCMap"} THEN "LP_Nmech" ELSE "HP_Nmech"
GroupOfTurbineToken(tok) ==
    IF tok = "LPTMap" THEN "LP_Nmech" ELSE "HP_Nmech"

\* C8 as stated: a compressor with FanMap or LPCMap is in the LP group, with
\* HPCMap in HP, a turbine with LPTMap in LP, with HPTMap in HP; an element
\* with any other token makes setup fail with ConfigurationError and is
\* given no group.
C8_UnknownTokenRejected ==
    ReachedElements =>
        /\ \A i \in 1..Len(cycleData.comp) :
              LET c == cycleData.comp[i]
              IN  IF c.map_data \in {"FanMap", "LPCMap", "HPCMap"}
                  THEN err = "ConfigurationError"
                       \/ \A sub \in SubsystemsNamed(point, c.name) :
                             sub.nmech = GroupOfCompressorToken(c.map_data)
                  ELSE err = "ConfigurationError"
                       /\ SubsystemsNamed(point, c.name) = {}
        /\ \A i \in 1..Len(cycleData.turb) :
              LET t == cycleData.turb[i]
              IN  IF t.map_data \in {"LPTMap", "HPTMap"}
                  THEN err = "ConfigurationError"
                       \/ \A sub \in SubsystemsNamed(point, t.name) :
                             sub.nmech = GroupOfTurbineToken(t.map_data)
                  ELSE err = "ConfigurationError"
                       /\ SubsystemsNamed(point, t.name) = {}

-----------------------------------------------------------------------------
(* C9, C10: shaft resolution *)

GC == cycleData.cycleInfo.global_connections

\* the pair names a declared compressor or turbine and a declared shaft
Resolvable(cd, pair) ==
    /\ pair[1] \in CompNamesOf(cd) \cup TurbNamesOf(cd)
    /\ pair[2] \in ShaftNamesOf(cd)

\* the pair is declared at position k for the first time
FirstAt(gc, k) == \A j \in 1..(k - 1) : gc[j] # gc[k]

\* number of different pairs on the shaft of gc[k] declared before gc[k]
PortByDeclaration(gc, k) ==
    Cardinality({gc[j] : j \in {i \in 1..(k - 1) : gc[i][2] = gc[k][2]}})

\* C9 as stated: in a built point every declared pair whose names exist has
\* exactly one torque connection, on the port given by the order in which
\* the pairs of that shaft were first declared.
C9_EveryPairConnected ==
    Built =>
        \A k \in 1..Len(GC) :
            Resolvable(cycleData, GC[k]) /\ FirstAt(GC, k) =>
                {c \in point.torque : c.src = GC[k][1] /\ c.shaft = GC[k][2]}
                    = {[src |-> GC[k][1], shaft |-> GC[k][2],
                        port |-> PortByDeclaration(GC, k)]}

\* C10 as stated: when a declared pair names an element or a shaft that is
\* not declared, setup fails with UnresolvedConnectionError.
C10_UnknownPairRejected ==
    ReachedConnections =>
        ((\E k \in 1..Len(GC) : ~Resolvable(cycleData, GC[k]))
            => err = "UnresolvedConnectionError")

-----------------------------------------------------------------------------
(* C11, C12: the flow graph *)

FC == cycleData.cycleInfo.flow_connections

\* names of the subsystems added to the point
Registered(pt) == {pt.subsystems[i].name : i \in 1..Len(pt.subsystems)}

\* the edge a declared flow connection stands for: the primary outlet for
\* a two-element entry, the indexed outlet for a three-element entry
DeclaredEdge(fc) ==
    [src |-> fc[1], outlet |-> IF Len(fc) = 3 THEN "Fl_O" \o fc[3] ELSE "Fl_O",
     dst |-> fc[2], inlet |-> "Fl_I"]

\* C11 as stated: once setup is past connect_flow, either every endpoint of
\* every declared flow connection is a registered element and the point has
\* exactly one edge per declaration, from the source's primary or indexed
\* outlet to the destination's inlet, or setup failed with
\* UnresolvedConnectionError.
C11_EdgePerDeclarationOrUnresolved ==
    ReachedFlow =>
        IF \A i \in 1..Len(FC) : FC[i][1] \in Registered(point)
                                 /\ FC[i][2] \in Registered(point)
        THEN /\ err # "UnresolvedConnectionError"
             /\ Len(point.flow) = Len(FC)
             /\ \A i \in 1..Len(FC) : point.flow[i] = DeclaredEdge(FC[i])
        ELSE err = "UnresolvedConnectionError"

\* C12 as stated: once setup is past connect_flow, no two flow edges of the
\* point enter the same inlet of the same destination, and a declaration
\* with two flow connections into one destination made setup fail with
\* DuplicateConnectionError.
C12_NoDoubleFeed ==
    ReachedFlow =>
        /\ \A i, j \in 1..Len(point.flow) :
              i # j => <<point.flow[i].dst, point.flow[i].inlet>>
                          # <<point.flow[j].dst, point.flow[j].inlet>>
        /\ (\E i, j \in 1..Len(FC) : i # j /\ FC[i][2] = FC[j][2])
              => err = "DuplicateConnectionError"

-----------------------------------------------------------------------------
(* C13: ambient coupling *)

\* the connections made into the exhaust back-pressure of nozzle `name`
AmbientInto(pt, name) ==
    {i \in 1..Len(pt.ambient) : pt.ambient[i][2] = name \o ".Ps_exhaust"}

\* C13 as stated: once setup is past connect_nozz_to_fc, a declaration with
\* exactly one FlightConditions element has every nozzle's back-pressure
\* bound exactly once, to that element's static pressure, and a declaration
\* with none or with more than one made setup fail with ConfigurationError.
C13_SingleAmbientOrRejected ==
    ReachedConnections =>
        IF Len(cycleData.fc) = 1
        THEN \A n \in 1..Len(cycleData.nozz) :
                /\ Cardinality(AmbientInto(point, cycleData.nozz[n].name)) = 1
                /\ \A i \in AmbientInto(point, cycleData.nozz[n].name) :
                      point.ambient[i][1] = cycleData.fc[1].name \o ".Fl_O:stat:P"
        ELSE err = "ConfigurationError"

-----------------------------------------------------------------------------
(* C20: the smallest declaration *)

\* one FlightConditions, one Inlet, one Compressor without bleed names and
\* one Nozzle, three flow connections, no bleed and no shaft declarations
IsLinearDeclaration(cd) ==
    /\ Len(cd.fc) = 1 /\ Len(cd.inlets) = 1 /\ Len(cd.comp) = 1 /\ Len(cd.nozz) = 1
    /\ cd.comp[1].bleed_given /\ cd.comp[1].bleed_names = {}
    /\ Len(cd.splitters) = 0 /\ Len(cd.duct) = 0 /\ Len(cd.comb) = 0
    /\ Len(cd.turb) = 0 /\ Len(cd.shafts) = 0 /\ Len(cd.bleeds) = 0
    /\ Len(cd.cycleInfo.flow_connections) = 3
    /\ Len(cd.cycleInfo.global_connections) = 0

\* C20 as stated: setup of such a declaration ends without error in a point
\* of exactly three flow edges and no bleed edge.
C20_LinearDeclarationBuilds ==
    IsLinearDeclaration(cycleData) /\ SetupEnded =>
        /\ err = "none"
        /\ Built
        /\ Len(point.flow) = 3
        /\ point.bleed = {}

-----------------------------------------------------------------------------
(* C19: resolution is deterministic and idempotent *)

\* what flow, bleed, shaft and ambient resolution left in a point: the flow
\* edges, the bleed edges with the role of each end, the shaft port of each
\* torque connection and the ambient bindings
Resolution(pt) ==
    [flow |-> pt.flow, bleed |-> Range(pt.bleed_calls), torque |-> pt.torque,
     ambient |-> pt.ambient]

\* C19: when setup runs again on a builder whose point was built, the point
\* it builds has the same flow edges, the same bleed edges with the same
\* source and destination, the same shaft port assignments and the same
\* ambient bindings, in whatever order either run met the bleed names.
C19_ResolutionIdempotent ==
    [][(Built /\ nsetup' = nsetup + 1 /\ pc' = "built")
          => Resolution(point') = Resolution(point)]_vars

\* a point built by a second run of setup that met four connected bleed
\* names in the order cool4 first, cool1 last
C19_Witness ==
    /\ Built /\ nsetup = 2
    /\ Len(point.bleed_calls) = 4
    /\ point.bleed_calls[1].bleed = "cool4"
    /\ point.bleed_calls[4].bleed = "cool1"

-----------------------------------------------------------------------------
(* Vocabulary of the run *)

ODNames == Range(od_pts)

\* the records the report holds for the swept point
ODRecords(r) ==
    LET IsOD(rec) == rec.pt = "OD_part_pwr"
    IN  SelectSeq(r.report, IsOD)

\* what a point of the multi-point model has on the right-hand side of
\* balance `name`: what the point itself connects or promotes there, what
\* pyc_connect_des_od binds there from the design point, and what a
\* connection between points feeds there
RHSTarget(m, p, name) ==
    Feeds(p, "rhs:" \o name)
    \cup {"DESIGN." \o m.des_od[i].args[1] :
            i \in {k \in 1..Len(m.des_od) :
                      /\ m.des_od[k].op = "pyc_connect_des_od"
                      /\ m.des_od[k].args[2] = "balance.rhs:" \o name
                      /\ p.name \in ODNames}}
    \cup {m.conns[i].src_pt \o "." \o m.conns[i].src :
            i \in {k \in 1..Len(m.conns) :
                      /\ m.conns[k].tgt_pt = p.name
                      /\ m.conns[k].tgt = "balance.rhs:" \o name}}

\* the off-design points of the model whose setup ended without exception
BuiltODPoints(m) ==
    {m.points[i] : i \in {k \in 1..Len(m.points) :
                             m.points[k].name \in ODNames /\ m.points[k].err = "none"}}

-----------------------------------------------------------------------------
(* C14, C15: the design point and the off-design points of an evaluation *)

\* C14 as stated: in every evaluation an off-design point has been solved
\* only after the Design point was solved and converged.
C14_DesignConvergedFirst ==
    \A od \in ODNames :
        run.solved[od] # "pending" => run.solved["DESIGN"] = "converged"

\* C15 as stated: when the Design point's solve has not converged, no
\* off-design point is solved in that evaluation, no record of the entry is
\* reported, and the run does not reach its end.
C15_DesignFailureFatal ==
    run.solved["DESIGN"] = "failed" =>
        /\ \A od \in ODNames : run.solved[od] = "pending"
        /\ \A i \in 1..Len(run.report) : run.report[i].entry # run.entry
        /\ run.pc # "done"

-----------------------------------------------------------------------------
(* C16: a solve that does not converge does not end the sweep *)

\* the record carries a mark that tells a converged entry from a failed one
Marked(rec, outcome) == "status" \in DOMAIN rec /\ rec.status = outcome

\* C16 as stated: the run is aborted by prob.setup() only, never by a solve
\* that does not converge; the report holds one record of the swept point
\* for every entry evaluated so far, in the order of the sweep and with the
\* entry's Mach number, altitude and power code; the record of an entry is
\* marked converged or failed as the solve of the swept point ended; and at
\* the end of the run there are 8 x 4 = 32 records.
C16_SweepSurvivesFailure ==
    /\ run.pc = "aborted" => run.nfail = 0 /\ run.entry = 0
    /\ run.pc \in {"loop", "run_model", "report", "done"} =>
          LET od == ODRecords(run)
          IN  /\ Len(od) = IF run.pc = "done" THEN 32 ELSE run.entry - 1
              /\ \A e \in 1..Len(od) :
                    /\ od[e].entry = e
                    /\ od[e].inputs = sweep_entry(e)
    /\ run.pc \in {"loop", "done"} /\ run.report # <<>> =>
          Marked(run.report[Len(run.report)], run.solved["OD_part_pwr"])

-----------------------------------------------------------------------------
(* C17: the design point's throat areas are the off-design targets *)

\* the point the multi-point model built under the name n, if any
BuiltAs(m, n) == {p \in BuiltODPoints(m) : p.name = n}

\* C17 as stated, for the MPhbtf of propulsion_performance_builder.py: once
\* prob.setup() has run on a model that was given the cycle data, every
\* off-design point it added is built, with the right-hand side of balance
\* W bound to the design point's core-nozzle throat area and nothing else,
\* and the right-hand side of balance BPR bound to the design point's
\* bypass-nozzle throat area and nothing else.
C17_DesignTargetsBound ==
    (mp.cls = "propulsion_performance_builder" /\ mp.pnts # <<>>) =>
        \A n \in ODNames \cap Range(mp.pnts) :
            /\ BuiltAs(mp, n) # {}
            /\ \A p \in BuiltAs(mp, n) :
                  /\ "W" \in Range(BalanceNames(p)) /\ "BPR" \in Range(BalanceNames(p))
                  /\ RHSTarget(mp, p, "W") = {"DESIGN.core_nozz.Throat:stat:area"}
                  /\ RHSTarget(mp, p, "BPR") = {"DESIGN.byp_nozz.Throat:stat:area"}

-----------------------------------------------------------------------------
(* C18: what an off-design point depends on *)

\* C18 as stated: no off-design point receives an output of another
\* off-design point.
C18_OffDesignIndependent ==
    \A i \in 1..Len(mp.conns) :
        (mp.conns[i].src_pt \in ODNames /\ mp.conns[i].tgt_pt \in ODNames)
            => mp.conns[i].src_pt = mp.conns[i].tgt_pt

-----------------------------------------------------------------------------
(* C21: balance declarations whose name or mode flag does not fit *)

\* the declaration at position k names a balance declared before it
DuplicateAt(balances, k) ==
    \E j \in 1..(k - 1) : balances[j].balance_name = balances[k].balance_name

\* the declaration at position k is for the other mode
MismatchAt(balances, design, k) ==
    balances[k].on_design # <<>> /\ balances[k].on_design[1] # design

\* C21 as stated: when a declaration handed to add_balances repeats a name
\* or carries a mode flag other than the point's, add_balances fails with
\* DuplicateBalanceError and the active set is as it was before the call;
\* no mismatching declaration is passed over without an error.
C21_MismatchOrDuplicateFails ==
    bcomp.pc \in {"added", "raised"} =>
        ((\E k \in 1..Len(bcomp.balances) :
              \/ DuplicateAt(bcomp.balances, k)
              \/ MismatchAt(bcomp.balances, bcomp.design, k))
            => bcomp.err = "DuplicateBalanceError" /\ bcomp.added = <<>>)

-----------------------------------------------------------------------------
(* C22: enumerated fields *)

AllowedFuelTypes == {"FAR", "Jet-A(g)"}
AllowedThermoMethods == {"CEA", "TABULAR"}

\* C22 as stated: once the declaration was registered, a Combustor whose
\* fuel type is not FAR or Jet-A(g), one with no fuel type included, has
\* the declaration rejected with the field fuel_type named, and a
\* thermodynamic method other than CEA and TABULAR has it rejected with the
\* field thermo_method named; an accepted declaration holds no such value.
C22_EnumeratedFieldsRejected ==
    cycleStatus.verdict # "unchecked" =>
        /\ (\E i \in 1..Len(cycleData.comb) :
                cycleData.comb[i].fuel_type \notin AllowedFuelTypes)
              => cycleStatus.verdict = "rejected"
                 /\ "Combustor.fuel_type" \in cycleStatus.fields
        /\ cycleData.cycleInfo.thermo_method \notin AllowedThermoMethods
              => cycleStatus.verdict = "rejected" /\ "thermo_method" \in cycleStatus.fields

-----------------------------------------------------------------------------
(* C23: classification of the declared elements *)

\* the keys of the per-kind lists
KindKeys ==
    {"fc", "inlets", "splitters", "duct", "comp", "comb", "turb", "nozz",
     "shafts", "bleeds"}

NamesIn(list) == {list[i].name : i \in 1..Len(list)}

\* the names of the elements in `names`, in the order of the declaration
DeclaredOrder(elements, names) ==
    LET In(e) == e.name \in names
        sel == SelectSeq(elements, In)
    IN  [i \in 1..Len(sel) |-> sel[i].name]

\* the builder holds the dictionary getInput made of the declaration as it
\* stands
Classified ==
    /\ builder.pc = "open"
    /\ builder.cls = "PropulsionPerformanceBuilder"
    /\ builder.cycleData # Absent
    /\ builder.cycleData = Some(getInput(builder.adh))

\* C23 as stated: every declared element is in exactly one per-kind list,
\* and each list holds its elements in the order of the declaration.
C23_ListsPartitionElements ==
    Classified =>
        LET cd == builder.cycleData[1]
            els == builder.adh.elements
        IN  /\ \A k \in 1..Len(els) :
                  Cardinality({key \in KindKeys : els[k].name \in NamesIn(cd[key])}) = 1
            /\ \A key \in KindKeys :
                  [i \in 1..Len(cd[key]) |-> cd[key][i].name]
                      = DeclaredOrder(els, NamesIn(cd[key]))

-----------------------------------------------------------------------------
(* C24: the entry points of pyCycleBuilder *)

InputKeys ==
    {"cycleInfo", "fc", "inlets", "splitters", "duct", "comp", "comb", "turb",
     "nozz", "shafts", "bleeds", "balances"}

\* the step is a call of op on a pyCycleBuilder
CallStep(op) ==
    /\ builder.cls = "pyCycleBuilder"
    /\ builder'.ncalls = builder.ncalls + 1
    /\ builder'.call.op = op
    /\ builder'.call.arg \in EngineTypes

\* C24 as stated: getInput(engineType) on a pyCycleBuilder returns the
\* dictionary the parent's getInput builds, with its twelve keys, and
\* stores it; getOutput("HBTF") right after it returns an HBTFBuilder made
\* from that dictionary.
C24_EntryPointsDeliver ==
    [][/\ CallStep("getInput") =>
            /\ builder'.call.err = "none"
            /\ builder'.call.ret = Some(getInput(builder.adh))
            /\ DOMAIN getInput(builder.adh) = InputKeys
            /\ builder'.cycleData = builder'.call.ret
       /\ (CallStep("getOutput") /\ builder.call.op = "getInput"
              /\ builder'.call.arg = "HBTF") =>
            /\ builder'.call.err = "none"
            /\ builder.call.ret # Absent
            /\ builder'.call.ret = Some(HBTFBuilder(builder.call.ret[1]))]_vars

-----------------------------------------------------------------------------
(* C26: the keys getInput writes and the keys setup reads *)

\* C26 as stated: in the dictionary getInput built, every key that setup
\* and its helpers read is present, at the top level, in cycleInfo and in
\* every entry of a per-kind list.
C26_KeysReadArePresent ==
    Classified =>
        LET cd == builder.cycleData[1]
        IN  /\ DOMAIN setup_reads \subseteq DOMAIN cd
            /\ setup_reads.cycleInfo \subseteq cd.cycleInfo.keys
            /\ \A key \in KindKeys :
                  \A i \in 1..Len(cd[key]) : setup_reads[key] \subseteq cd[key][i].keys

-----------------------------------------------------------------------------
(* C30: the order of getInput and getOutput on one pyCycleBuilder *)

\* C30 as stated: a getOutput call on a pyCycleBuilder either raises or
\* returns a builder made from the dictionary of the latest getInput that
\* returned one; it raises when no getInput has returned a dictionary and
\* when the engine type is not HBTF.
C30_OutputFromLatestInput ==
    (builder.pc = "open" /\ builder.cls = "pyCycleBuilder"
        /\ builder.call.op = "getOutput") =>
        /\ \/ builder.call.err # "none"
           \/ /\ builder.last_input # Absent
              /\ builder.call.ret = Some(HBTFBuilder(builder.last_input[1]))
        /\ builder.last_input = Absent => builder.call.err # "none"
        /\ builder.call.arg # "HBTF" => builder.call.err # "none"

-----------------------------------------------------------------------------
(* C25: what the sweep writes *)

\* the inputs of the off-design points that vary over the sweep
SweepInputs ==
    {"OD_full_pwr.fc.MN", "OD_full_pwr.fc.alt",
     "OD_part_pwr.fc.MN", "OD_part_pwr.fc.alt", "OD_part_pwr.PC"}

\* the inputs of the design point
DesignInputs ==
    {"DESIGN.fan.PR", "DESIGN.fan.eff", "DESIGN.lpc.PR", "DESIGN.lpc.eff",
     "DESIGN.hpc.PR", "DESIGN.hpc.eff", "DESIGN.hpt.PR", "DESIGN.lpt.eff",
     "DESIGN.fc.alt", "DESIGN.fc.MN", "DESIGN.T4_MAX", "DESIGN.Fn_DES"}

\* the sweep has begun: the first entry's inputs were written
SweepBegun == run.pc \in {"run_model", "report", "loop", "done"} /\ run.written # {}

\* the position of an entry's (Mach number, altitude) pair in flight_env
PairIndex(inputs) ==
    CHOOSE i \in 1..Len(flight_env) : flight_env[i] = <<inputs.MN, inputs.alt>>

\* all combinations of a pair and a power code
Combinations ==
    {[MN |-> flight_env[i][1], alt |-> flight_env[i][2], PC |-> power_codes[j]] :
        i \in 1..Len(flight_env), j \in 1..Len(power_codes)}

\* C25: once the sweep has begun, the writes of an entry are to the Mach
\* number and altitude of the off-design points and to the power code of
\* OD_part_pwr only; the inputs of the design point keep the values set
\* before the sweep, and the design-to-off-design targets stay bound as
\* they were; the entries reported so far are different combinations of a
\* pair and a power code, pair by pair in the order of flight_env, and at
\* the end of the sweep every combination has been reported.
C25_SweepWritesOffDesignOnly ==
    SweepBegun =>
        LET R == ODRecords(run)
        IN  /\ run.written \subseteq SweepInputs
            /\ \A k \in DesignInputs :
                  \E i \in 1..Len(design_writes) :
                      design_writes[i] = Write(k, run.vals[k])
            /\ mp.des_od = MPhbtf_des_od
            /\ \A i, j \in 1..Len(R) :
                  i < j => /\ R[i].inputs # R[j].inputs
                           /\ PairIndex(R[i].inputs) <= PairIndex(R[j].inputs)
            /\ \A i \in 1..Len(R) : R[i].inputs \in Combinations
            /\ run.pc = "done" =>
                  {R[i].inputs : i \in 1..Len(R)} = Combinations

\* the sweep is over: the last entry wrote the power code alone, the last
\* pair and the last power code stand in the inputs
C25_Witness ==
    /\ run.pc = "done"
    /\ run.written = {"OD_part_pwr.PC"}
    /\ run.vals["OD_part_pwr.PC"] = "70"
    /\ run.vals["OD_full_pwr.fc.MN"] = "200"
    /\ run.vals["DESIGN.fc.MN"] = "elements[0].mn"
    /\ Len(ODRecords(run)) = sweep_length

-----------------------------------------------------------------------------
(* C28: the ports of the shafts *)

\* the ports setup has connected on a shaft
PortsOf(shaft) == {c.port : c \in {t \in point.torque : t.shaft = shaft}}

\* the elements setup has connected to a shaft
ConnectedTo(shaft) == {c.src : c \in {t \in point.torque : t.shaft = shaft}}

\* C28: in a built point the ports taken on a shaft are distinct, run from 0
\* without a gap and lie below the shaft's num_ports, and the number of
\* elements connected to a shaft is its num_ports.
C28_ShaftPortsFilled ==
    Built =>
        \A i \in 1..Len(cycleData.shafts) :
            LET sh == cycleData.shafts[i]
                n == Cardinality(ConnectedTo(sh.name))
            IN  /\ \A c, d \in point.torque :
                      c.shaft = sh.name /\ d.shaft = sh.name /\ c.port = d.port => c = d
                /\ PortsOf(sh.name) = 0..(n - 1)
                /\ \A q \in PortsOf(sh.name) : q < sh.num_ports
                /\ n = sh.num_ports

-----------------------------------------------------------------------------
(* C29: the speed variables of a shaft and of its turbomachinery *)

\* the name the Nmech input of subsystem `name` is promoted to
NmechOf(name) ==
    {point.subsystems[i].nmech :
        i \in {k \in 1..Len(point.subsystems) : point.subsystems[k].name = name}}

\* the (turbomachinery, shaft) pairs of global_connections whose two names
\* are declared
DeclaredPairs ==
    {p \in Range(cycleData.cycleInfo.global_connections) :
        /\ p[1] \in CompNamesOf(cycleData) \cup TurbNamesOf(cycleData)
        /\ p[2] \in ShaftNamesOf(cycleData)}

\* C29: in a built point every declared (turbomachinery, shaft) pair has its
\* two subsystems promoted to the same speed variable, and every shaft is
\* promoted to LP_Nmech or to HP_Nmech.
C29_SpeedGroupsAgree ==
    Built =>
        /\ \A p \in DeclaredPairs : NmechOf(p[1]) = NmechOf(p[2])
        /\ \A s_ \in ShaftNamesOf(cycleData) :
              NmechOf(s_) \subseteq {"LP_Nmech", "HP_Nmech"}

-----------------------------------------------------------------------------
(* C27: the names of the hard-coded wiring *)

\* the number of times name n stands in the list of names q
Occurrences(q, n) == Cardinality({i \in 1..Len(q) : q[i] = n})

\* the names of the elements of a declaration
DeclaredNames(cd) ==
    UNION {{l[i].name : i \in 1..Len(l)} :
             l \in {cd.fc, cd.inlets, cd.splitters, cd.duct, cd.comp, cd.comb,
                    cd.turb, cd.nozz, cd.shafts, cd.bleeds, cd.perf}}

\* the connections of the balances: those setup requests after the
\* connections of the performance component
BalanceConnects(pt, cd) ==
    SubSeq(pt.connects, Len(add_perfomance_connects(cd)) + 1, Len(pt.connects))

\* the variables of the balance component
BalanceVariables(pt) ==
    UNION {{"balance." \o pt.balances[i].name, "balance.lhs:" \o pt.balances[i].name,
            "balance.rhs:" \o pt.balances[i].name, "balance.mult:" \o pt.balances[i].name} :
              i \in 1..Len(pt.balances)}

\* the variables of an element that a balance drives or reads
ElementVariables ==
    {"W", "Fn", "Fl_I:FAR", "Fl_O:tot:T", "PR", "pwr_in_real", "pwr_out_real",
     "Throat:stat:area", "BPR"}

\* the end of a connection is a variable of a declared element
OnDeclaredElement(end, cd) ==
    \E n \in DeclaredNames(cd) : \E v \in ElementVariables : end = n \o "." \o v

\* C27: when setup has built the point, set_order having taken the list,
\* every name of the list is the name of exactly one subsystem added and
\* every subsystem added stands exactly once in the list; and every end of
\* a connection of the balances is a variable of the balance component, a
\* promoted shaft speed, or a variable of a declared element.
C27_WiringNamesDeclared ==
    Built =>
        /\ Len(point.order) = Len(point.subsystems)
        /\ \A n \in Range(point.order) \cup Range(SubsystemNames(point)) :
              /\ Occurrences(point.order, n) = 1
              /\ Occurrences(SubsystemNames(point), n) = 1
        /\ \A i \in 1..Len(BalanceConnects(point, cycleData)) :
              \A k \in 1..2 :
                  LET end == BalanceConnects(point, cycleData)[i][k]
                  IN  \/ end \in BalanceVariables(point)
                      \/ end \in {"LP_Nmech", "HP_Nmech"}
                      \/ OnDeclaredElement(end, cycleData)

\* an off-design point in percent_thrust mode has been built from the
\* demonstration declaration and its execution order taken: its balances
\* read the two nozzles, the splitter and the performance component
C27_Witness ==
    /\ Built
    /\ Len(point.order) = 22
    /\ Len(point.subsystems) = 22
    /\ ~cycleData.cycleInfo.design
    /\ options.throttle_mode = "percent_thrust"
    /\ \E i \in 1..Len(BalanceConnects(point, cycleData)) :
          BalanceConnects(point, cycleData)[i] = Conn("perf.Fn", "balance.rhs:FAR")

====
